---------------------------- MODULE Spec2Model ----------------------------
(***************************************************************************)
(* A model of the file-manager DSL interpreter (src/dsl_executor.py) and   *)
(* of the filesystem operations it drives (src/file_manager.py).           *)
(*                                                                         *)
(* Text is a sequence of symbols.  A symbol is one character, or an        *)
(* indivisible run of letters and underscores ("MOVE_FILE"); str.strip,    *)
(* str.splitlines, shlex and pathlib treat every character of such a run   *)
(* alike, so the run behaves as one ordinary character.  The model is      *)
(* POSIX: os.path.sep is "/", os.path.altsep is None.  The filesystem has  *)
(* one volume, no symbolic links, and every access is permitted.           *)
(***************************************************************************)
EXTENDS Integers, Sequences, FiniteSets, TLC

(***************************************************************************)
(* Optional values: None is the empty sequence, Some(x) a one-element one. *)
(***************************************************************************)
None == << >>
Some(x) == << x >>

(***************************************************************************)
(* Characters.                                                             *)
(***************************************************************************)
SP == " "
NL == "\n"
HASH == "#"
DQ == "\""
SQ == "'"
BS == "\\"
SEP == "/"

\* str.strip() with no argument removes these from both ends.
StripChars == {" ", "\t", "\n", "\r"}

\* str.splitlines() ends a line at each of these.
LineBoundaries == {"\n", "\r"}

\* shlex.shlex attributes as set up by shlex.split(line):
\* posix = True, whitespace_split = True, commenters = ''.
whitespace == {" ", "\t", "\r", "\n"}
quotes == {"'", "\""}
escape == {"\\"}
escapedquotes == {"\""}

(***************************************************************************)
(* str.splitlines(): the lines of a text, without their line boundaries;   *)
(* a boundary at the very end of the text opens no further line.           *)
(***************************************************************************)
RECURSIVE SplitLinesFrom(_, _, _, _)
SplitLinesFrom(text, i, cur, acc) ==
    IF i > Len(text)
    THEN IF cur = << >> /\ (i = 1 \/ text[i - 1] \in LineBoundaries)
         THEN acc
         ELSE Append(acc, cur)
    ELSE IF text[i] \in LineBoundaries
         THEN SplitLinesFrom(text, i + 1, << >>, Append(acc, cur))
         ELSE SplitLinesFrom(text, i + 1, Append(cur, text[i]), acc)

splitlines(text) == SplitLinesFrom(text, 1, << >>, << >>)

(***************************************************************************)
(* str.strip().                                                            *)
(***************************************************************************)
RECURSIVE LStrip(_)
LStrip(s) ==
    IF s # << >> /\ Head(s) \in StripChars THEN LStrip(Tail(s)) ELSE s

RECURSIVE RStrip(_)
RStrip(s) ==
    IF s # << >> /\ s[Len(s)] \in StripChars
    THEN RStrip(SubSeq(s, 1, Len(s) - 1))
    ELSE s

strip(s) == RStrip(LStrip(s))

\* line.startswith("#")
startswith(s, c) == s # << >> /\ Head(s) = c

(***************************************************************************)
(* shlex.split(line): the token loop of shlex.read_token in POSIX mode.    *)
(* state is " " (between tokens), "a" (in a word), a quote character (in   *)
(* a quoted part) or the escape character (after a backslash), as in the   *)
(* library.  The outcome is the token list or the ValueError raised.       *)
(***************************************************************************)
ShlexOk(tokens) == [ok |-> TRUE, tokens |-> tokens, msg |-> ""]
ShlexError(msg) == [ok |-> FALSE, tokens |-> << >>, msg |-> msg]

\* A tokenizer that drops every empty token, quoted or not.
EmitToken_DropQuotedEmpty(acc, token, quoted) ==
    IF token # << >> THEN Append(acc, token) ELSE acc

\* read_token returns None instead of an empty unquoted token.
EmitToken(acc, token, quoted) ==
    IF token # << >> \/ quoted THEN Append(acc, token) ELSE acc

RECURSIVE read_token(_, _, _, _, _, _, _)
read_token(line, i, state, escapedstate, token, quoted, acc) ==
    IF i > Len(line)
    THEN CASE state \in quotes -> ShlexError("No closing quotation")
           [] state \in escape -> ShlexError("No escaped character")
           [] OTHER -> ShlexOk(EmitToken(acc, token, quoted))
    ELSE LET nextchar == line[i] IN
         CASE state = " " ->
                IF nextchar \in whitespace
                THEN read_token(line, i + 1, " ", escapedstate, token, quoted, acc)
                ELSE IF nextchar \in escape
                THEN read_token(line, i + 1, nextchar, "a", token, quoted, acc)
                ELSE IF nextchar \in quotes
                THEN read_token(line, i + 1, nextchar, escapedstate, token, TRUE, acc)
                ELSE read_token(line, i + 1, "a", escapedstate, << nextchar >>, quoted, acc)
           [] state \in quotes ->
                IF nextchar = state
                THEN read_token(line, i + 1, "a", escapedstate, token, TRUE, acc)
                ELSE IF nextchar \in escape /\ state \in escapedquotes
                THEN read_token(line, i + 1, nextchar, state, token, TRUE, acc)
                ELSE read_token(line, i + 1, state, escapedstate,
                                Append(token, nextchar), TRUE, acc)
           [] state \in escape ->
                LET kept == IF escapedstate \in quotes /\ nextchar # state
                               /\ nextchar # escapedstate
                            THEN Append(token, state)
                            ELSE token
                IN read_token(line, i + 1, escapedstate, escapedstate,
                              Append(kept, nextchar), quoted, acc)
           [] OTHER ->
                IF nextchar \in whitespace
                THEN read_token(line, i + 1, " ", escapedstate, << >>, FALSE,
                                EmitToken(acc, token, quoted))
                ELSE IF nextchar \in quotes
                THEN read_token(line, i + 1, nextchar, escapedstate, token, TRUE, acc)
                ELSE IF nextchar \in escape
                THEN read_token(line, i + 1, nextchar, "a", token, quoted, acc)
                ELSE read_token(line, i + 1, "a", escapedstate,
                                Append(token, nextchar), quoted, acc)

shlex_split(line) == read_token(line, 1, " ", " ", << >>, FALSE, << >>)


(***************************************************************************)
(* pathlib.PurePosixPath.  A path is its list of components and whether    *)
(* it is anchored at the root; empty components are dropped on parsing.    *)
(***************************************************************************)
RECURSIVE SplitSep(_, _, _)
SplitSep(s, cur, acc) ==
    IF s = << >>
    THEN IF cur = << >> THEN acc ELSE Append(acc, cur)
    ELSE IF Head(s) = SEP
         THEN SplitSep(Tail(s), << >>, IF cur = << >> THEN acc ELSE Append(acc, cur))
         ELSE SplitSep(Tail(s), Append(cur, Head(s)), acc)

\* Path(text)
Path(s) == [anchored |-> startswith(s, SEP), parts |-> SplitSep(s, << >>, << >>)]

\* path.name
PathName(p) == IF p.parts = << >> THEN << >> ELSE p.parts[Len(p.parts)]

\* path.parent
PathParent(p) ==
    IF p.parts = << >> THEN p
    ELSE [p EXCEPT !.parts = SubSeq(p.parts, 1, Len(p.parts) - 1)]

\* path / name
PathJoin(p, nm) == [p EXCEPT !.parts = Append(p.parts, nm)]

\* os.path.sep in new_name or (os.path.altsep and os.path.altsep in new_name)
HasSeparator(s) == \E i \in 1..Len(s) : s[i] = SEP

\* The location the operating system resolves a path to, from the process
\* working directory: a list of names from the root.
Locate(cwd, p) == IF p.anchored THEN p.parts ELSE cwd \o p.parts

(***************************************************************************)
(* The filesystem: a function from locations to nodes.  The root << >> is  *)
(* a directory; every other location that exists has a directory as its    *)
(* parent.  A regular file carries its bytes.                              *)
(***************************************************************************)
DirNode == [kind |-> "dir", data |-> << >>]
FileNode(bytes) == [kind |-> "file", data |-> bytes]

Front(q) == SubSeq(q, 1, Len(q) - 1)
IsPrefix(q, r) == Len(q) <= Len(r) /\ SubSeq(r, 1, Len(q)) = q

FsExists(fs, q) == q \in DOMAIN fs
FsIsDir(fs, q) == q \in DOMAIN fs /\ fs[q].kind = "dir"
FsIsFile(fs, q) == q \in DOMAIN fs /\ fs[q].kind = "file"

\* path.exists(), path.is_dir(), path.is_file()
exists(fs, cwd, p) == FsExists(fs, Locate(cwd, p))
is_dir(fs, cwd, p) == FsIsDir(fs, Locate(cwd, p))
is_file(fs, cwd, p) == FsIsFile(fs, Locate(cwd, p))

(***************************************************************************)
(* Exceptions and the outcome of a call: the filesystem and the working    *)
(* directory it leaves, and either the value returned or the exception     *)
(* raised.                                                                 *)
(***************************************************************************)
Exc(cls, msg) == [cls |-> cls, msg |-> msg]

Return(fs, cwd, v) == [fs |-> fs, cwd |-> cwd, value |-> Some(v), error |-> None]
Raise(fs, cwd, e) == [fs |-> fs, cwd |-> cwd, value |-> None, error |-> Some(e)]
Raised(o) == o.error # None

\* The errno a system call fails with while walking to the parent of q:
\* ENOTDIR at a component that is not a directory, ENOENT at a missing one.
RECURSIVE WalkError(_, _, _)
WalkError(fs, q, k) ==
    IF k >= Len(q) THEN None
    ELSE LET anc == SubSeq(q, 1, k) IN
         IF ~FsExists(fs, anc) THEN Some(Exc("FileNotFoundError", "ENOENT"))
         ELSE IF ~FsIsDir(fs, anc) THEN Some(Exc("NotADirectoryError", "ENOTDIR"))
         ELSE WalkError(fs, q, k + 1)

\* os.mkdir(q)
os_mkdir(fs, cwd, q) ==
    IF WalkError(fs, q, 0) # None THEN Raise(fs, cwd, WalkError(fs, q, 0)[1])
    ELSE IF FsExists(fs, q) THEN Raise(fs, cwd, Exc("FileExistsError", "EEXIST"))
    ELSE Return([r \in DOMAIN fs \cup {q} |-> IF r = q THEN DirNode ELSE fs[r]],
                cwd, q)

\* Path.mkdir(parents, exist_ok)
RECURSIVE mkdir(_, _, _, _, _)
mkdir(fs, cwd, q, parents, exist_ok) ==
    LET first == os_mkdir(fs, cwd, q) IN
    IF ~Raised(first) THEN first
    ELSE IF first.error[1].cls = "FileNotFoundError"
    THEN IF ~parents \/ q = << >> THEN first
         ELSE LET up == mkdir(fs, cwd, Front(q), TRUE, TRUE) IN
              IF Raised(up) THEN up
              ELSE mkdir(up.fs, cwd, q, FALSE, exist_ok)
    ELSE IF ~exist_ok \/ ~FsIsDir(fs, q) THEN first
    ELSE Return(fs, cwd, q)

\* path.unlink() of a regular file
unlink(fs, q) == [r \in DOMAIN fs \ {q} |-> fs[r]]

\* The tree after the entry at src (with everything below it) has become
\* the entry at dst; an entry already at dst is replaced.
Relocate(fs, src, dst) ==
    LET moved == {r \in DOMAIN fs : IsPrefix(src, r)}
        kept == {r \in DOMAIN fs : ~IsPrefix(src, r) /\ ~IsPrefix(dst, r)}
        target(r) == dst \o SubSeq(r, Len(src) + 1, Len(r))
        origin(t) == src \o SubSeq(t, Len(dst) + 1, Len(t))
    IN [t \in kept \cup {target(r) : r \in moved} |->
            IF IsPrefix(dst, t) THEN fs[origin(t)] ELSE fs[t]]

\* The working directory is a directory, not a name: it follows a rename
\* of itself or of a directory above it.
RelocateCwd(cwd, src, dst) ==
    IF IsPrefix(src, cwd) THEN dst \o SubSeq(cwd, Len(src) + 1, Len(cwd)) ELSE cwd

\* os.rename(src, dst)
os_rename(fs, cwd, src, dst) ==
    IF WalkError(fs, src, 0) # None THEN Raise(fs, cwd, WalkError(fs, src, 0)[1])
    ELSE IF ~FsExists(fs, src) THEN Raise(fs, cwd, Exc("FileNotFoundError", "ENOENT"))
    ELSE IF WalkError(fs, dst, 0) # None THEN Raise(fs, cwd, WalkError(fs, dst, 0)[1])
    ELSE IF src = dst THEN Return(fs, cwd, dst)
    ELSE IF FsIsDir(fs, src) /\ IsPrefix(src, dst)
    THEN Raise(fs, cwd, Exc("OSError", "EINVAL"))
    ELSE IF FsIsFile(fs, src) /\ FsIsDir(fs, dst)
    THEN Raise(fs, cwd, Exc("IsADirectoryError", "EISDIR"))
    ELSE IF FsIsDir(fs, src) /\ FsIsFile(fs, dst)
    THEN Raise(fs, cwd, Exc("NotADirectoryError", "ENOTDIR"))
    ELSE IF FsIsDir(fs, src) /\ FsIsDir(fs, dst)
            /\ \E r \in DOMAIN fs : r # dst /\ IsPrefix(dst, r)
    THEN Raise(fs, cwd, Exc("OSError", "ENOTEMPTY"))
    ELSE Return(Relocate(fs, src, dst), RelocateCwd(cwd, src, dst), dst)

(***************************************************************************)
(* shutil.move(src, dst) for a source that was a regular file when         *)
(* move_file checked it: into dst when dst is a directory, else onto dst;  *)
(* when os.rename fails, copy the file and remove the source.              *)
(***************************************************************************)
shutil_move(fs, cwd, src, dst) ==
    LET real_dst == IF FsIsDir(fs, dst) THEN Append(dst, src[Len(src)]) ELSE dst
        renamed == os_rename(fs, cwd, src, real_dst)
    IN IF FsIsDir(fs, dst) /\ FsExists(fs, real_dst)
       THEN Raise(fs, cwd, Exc("Error", "Destination path already exists"))
       ELSE IF ~Raised(renamed) THEN renamed
       ELSE IF ~FsIsFile(fs, src)
       THEN Raise(fs, cwd, Exc("FileNotFoundError", "ENOENT"))
       ELSE IF WalkError(fs, real_dst, 0) # None
       THEN Raise(fs, cwd, WalkError(fs, real_dst, 0)[1])
       ELSE IF FsIsDir(fs, real_dst)
       THEN Raise(fs, cwd, Exc("IsADirectoryError", "EISDIR"))
       ELSE Return(Relocate(fs, src, real_dst), cwd, real_dst)

(***************************************************************************)
(* Values returned by the operations.                                      *)
(***************************************************************************)
PathValue(p) == [type |-> "Path", path |-> p]
StrValue(s) == [type |-> "str", text |-> s]
IntValue(n) == [type |-> "int", int |-> n]
\* f"Folder: {folder}\nFiles: {files}".  The order of the names is the
\* order in which the system lists the directory; the model keeps the set.
ListingValue(folder, files) == [type |-> "str", folder |-> folder, files |-> files]

(***************************************************************************)
(* src/file_manager.py                                                     *)
(***************************************************************************)
\* A listing that does not leave the subdirectories out.
list_files_in_folder_AllEntries(fs, cwd, folder_path) ==
    LET folder == Path(folder_path)
        at == Locate(cwd, folder)
    IN IF ~exists(fs, cwd, folder)
       THEN Raise(fs, cwd, Exc("FileNotFoundError", "Folder does not exist"))
       ELSE IF ~is_dir(fs, cwd, folder)
       THEN Raise(fs, cwd, Exc("NotADirectoryError", "Path is not a directory"))
       ELSE Return(fs, cwd,
                   {r[Len(r)] : r \in {e \in DOMAIN fs : e # << >> /\ Front(e) = at}})

list_files_in_folder(fs, cwd, folder_path) ==
    LET folder == Path(folder_path)
        at == Locate(cwd, folder)
    IN IF ~exists(fs, cwd, folder)
       THEN Raise(fs, cwd, Exc("FileNotFoundError", "Folder does not exist"))
       ELSE IF ~is_dir(fs, cwd, folder)
       THEN Raise(fs, cwd, Exc("NotADirectoryError", "Path is not a directory"))
       ELSE Return(fs, cwd,
                   {r[Len(r)] : r \in {e \in DOMAIN fs :
                        e # << >> /\ Front(e) = at /\ FsIsFile(fs, e)}})

get_file_name(fs, cwd, file_path) ==
    LET path == Path(file_path)
    IN IF ~exists(fs, cwd, path)
       THEN Raise(fs, cwd, Exc("FileNotFoundError", "File does not exist"))
       ELSE Return(fs, cwd, StrValue(PathName(path)))

\* A get_file_size that takes the size of whatever is at the path.
get_file_size_AnyEntry(fs, cwd, file_path) ==
    LET path == Path(file_path)
    IN IF ~exists(fs, cwd, path)
       THEN Raise(fs, cwd, Exc("FileNotFoundError", "File does not exist"))
       ELSE Return(fs, cwd, IntValue(Len(fs[Locate(cwd, path)].data)))

get_file_size(fs, cwd, file_path) ==
    LET path == Path(file_path)
    IN IF ~exists(fs, cwd, path)
       THEN Raise(fs, cwd, Exc("FileNotFoundError", "File does not exist"))
       ELSE IF ~is_file(fs, cwd, path)
       THEN Raise(fs, cwd, Exc("IsADirectoryError", "Path is not a file"))
       ELSE Return(fs, cwd, IntValue(Len(fs[Locate(cwd, path)].data)))

\* path.with_name(new_name): the ValueError it raises, if any, and the path.
with_name_error(p, new_name) ==
    IF PathName(p) = << >> THEN Some(Exc("ValueError", "has an empty name"))
    ELSE IF new_name = << >> \/ HasSeparator(new_name)
    THEN Some(Exc("ValueError", "Invalid name"))
    ELSE None

\* A destination built as Path(new_name), without the parent.
with_name_Bare(p, new_name) == [anchored |-> FALSE, parts |-> << new_name >>]

with_name(p, new_name) == [p EXCEPT !.parts = Append(Front(p.parts), new_name)]

\* src.rename(dest); return dest
RenameTo(fs, cwd, src, dest) ==
    LET renamed == os_rename(fs, cwd, Locate(cwd, src), Locate(cwd, dest))
    IN IF Raised(renamed) THEN renamed
       ELSE Return(renamed.fs, renamed.cwd, PathValue(dest))

\* A rename_file that looks at the source before it looks at the name.
rename_file_SourceFirst(fs, cwd, file_path, new_name) ==
    LET src == Path(file_path)
        dest == with_name(src, new_name)
    IN IF ~exists(fs, cwd, src)
       THEN Raise(fs, cwd, Exc("FileNotFoundError", "File does not exist"))
       ELSE IF ~is_file(fs, cwd, src)
       THEN Raise(fs, cwd, Exc("IsADirectoryError", "Path is not a file"))
       ELSE IF HasSeparator(new_name)
       THEN Raise(fs, cwd, Exc("ValueError", "new_name must be a name only, not a full path."))
       ELSE IF with_name_error(src, new_name) # None
       THEN Raise(fs, cwd, with_name_error(src, new_name)[1])
       ELSE IF exists(fs, cwd, dest)
       THEN Raise(fs, cwd, Exc("FileExistsError", "Target file already exists"))
       ELSE RenameTo(fs, cwd, src, dest)

rename_file(fs, cwd, file_path, new_name) ==
    LET src == Path(file_path)
        dest == with_name(src, new_name)
    IN IF HasSeparator(new_name)
       THEN Raise(fs, cwd, Exc("ValueError", "new_name must be a name only, not a full path."))
       ELSE IF ~exists(fs, cwd, src)
       THEN Raise(fs, cwd, Exc("FileNotFoundError", "File does not exist"))
       ELSE IF ~is_file(fs, cwd, src)
       THEN Raise(fs, cwd, Exc("IsADirectoryError", "Path is not a file"))
       ELSE IF with_name_error(src, new_name) # None
       THEN Raise(fs, cwd, with_name_error(src, new_name)[1])
       ELSE IF exists(fs, cwd, dest)
       THEN Raise(fs, cwd, Exc("FileExistsError", "Target file already exists"))
       ELSE RenameTo(fs, cwd, src, dest)

\* A create_folder that makes the last directory only.
create_folder_NoParents(fs, cwd, folder_path, exist_ok) ==
    LET path == Path(folder_path)
        made == mkdir(fs, cwd, Locate(cwd, path), FALSE, exist_ok)
    IN IF exists(fs, cwd, path) /\ ~is_dir(fs, cwd, path)
       THEN Raise(fs, cwd, Exc("FileExistsError", "Non-directory already exists at path"))
       ELSE IF Raised(made) THEN made
       ELSE Return(made.fs, cwd, PathValue(path))

create_folder(fs, cwd, folder_path, exist_ok) ==
    LET path == Path(folder_path)
        made == mkdir(fs, cwd, Locate(cwd, path), TRUE, exist_ok)
    IN IF exists(fs, cwd, path) /\ ~is_dir(fs, cwd, path)
       THEN Raise(fs, cwd, Exc("FileExistsError", "Non-directory already exists at path"))
       ELSE IF Raised(made) THEN made
       ELSE Return(made.fs, cwd, PathValue(path))

\* A rename_folder that does not look at the destination.
rename_folder_Unchecked(fs, cwd, folder_path, new_name) ==
    LET src == Path(folder_path)
        dest == with_name(src, new_name)
    IN IF HasSeparator(new_name)
       THEN Raise(fs, cwd, Exc("ValueError", "new_name must be a name only, not a full path."))
       ELSE IF ~exists(fs, cwd, src)
       THEN Raise(fs, cwd, Exc("FileNotFoundError", "Folder does not exist"))
       ELSE IF ~is_dir(fs, cwd, src)
       THEN Raise(fs, cwd, Exc("NotADirectoryError", "Path is not a directory"))
       ELSE IF with_name_error(src, new_name) # None
       THEN Raise(fs, cwd, with_name_error(src, new_name)[1])
       ELSE RenameTo(fs, cwd, src, dest)

rename_folder(fs, cwd, folder_path, new_name) ==
    LET src == Path(folder_path)
        dest == with_name(src, new_name)
    IN IF HasSeparator(new_name)
       THEN Raise(fs, cwd, Exc("ValueError", "new_name must be a name only, not a full path."))
       ELSE IF ~exists(fs, cwd, src)
       THEN Raise(fs, cwd, Exc("FileNotFoundError", "Folder does not exist"))
       ELSE IF ~is_dir(fs, cwd, src)
       THEN Raise(fs, cwd, Exc("NotADirectoryError", "Path is not a directory"))
       ELSE IF with_name_error(src, new_name) # None
       THEN Raise(fs, cwd, with_name_error(src, new_name)[1])
       ELSE IF exists(fs, cwd, dest)
       THEN Raise(fs, cwd, Exc("FileExistsError", "Target folder already exists"))
       ELSE RenameTo(fs, cwd, src, dest)

\* A move_file that takes destination_path as the destination whatever
\* is there.
EffectiveDest_AsGiven(fs, cwd, src, dst) == dst

\* The destination move_file settles on: inside destination_path when that
\* is an existing directory, else destination_path itself.
EffectiveDest(fs, cwd, src, dst) ==
    IF exists(fs, cwd, dst) /\ is_dir(fs, cwd, dst)
    THEN PathJoin(dst, PathName(src))
    ELSE dst

move_file(fs, cwd, source_path, destination_path, overwrite) ==
    LET src == Path(source_path)
        dest == EffectiveDest(fs, cwd, src, Path(destination_path))
        at == Locate(cwd, dest)
        cleared == IF exists(fs, cwd, dest) /\ is_file(fs, cwd, dest)
                   THEN unlink(fs, at)
                   ELSE fs
        made == mkdir(cleared, cwd, Front(at), TRUE, TRUE)
        moved == shutil_move(made.fs, cwd, Locate(cwd, src), at)
    IN IF ~exists(fs, cwd, src)
       THEN Raise(fs, cwd, Exc("FileNotFoundError", "Source file does not exist"))
       ELSE IF ~is_file(fs, cwd, src)
       THEN Raise(fs, cwd, Exc("IsADirectoryError", "Source path is not a file"))
       ELSE IF exists(fs, cwd, dest) /\ ~overwrite
       THEN Raise(fs, cwd, Exc("FileExistsError", "Destination file already exists"))
       ELSE IF Raised(made) THEN made
       ELSE IF Raised(moved) THEN moved
       ELSE Return(moved.fs, moved.cwd, PathValue(dest))

(***************************************************************************)
(* src/dsl_executor.py                                                     *)
(***************************************************************************)

\* str.upper() on the symbols of the model: the letters and letter runs
\* that have an upper-case form; every other symbol is its own.
UpperForms ==
    { <<"a", "A">>, <<"b", "B">>, <<"d", "D">>, <<"n", "N">>, <<"x", "X">>,
      <<"foo", "FOO">>, <<"overwrite", "OVERWRITE">>,
      <<"list_files", "LIST_FILES">>, <<"get_file_name", "GET_FILE_NAME">>,
      <<"get_file_size", "GET_FILE_SIZE">>, <<"rename_file", "RENAME_FILE">>,
      <<"create_folder", "CREATE_FOLDER">>, <<"rename_folder", "RENAME_FOLDER">>,
      <<"move_file", "MOVE_FILE">>, <<"Move_File", "MOVE_FILE">> }

UpperChar(c) ==
    IF \E u \in UpperForms : u[1] = c
    THEN (CHOOSE u \in UpperForms : u[1] = c)[2]
    ELSE c

\* A dispatch on the token as written.
upper_AsWritten(s) == s

upper(s) == [i \in 1..Len(s) |-> UpperChar(s[i])]

\* Numbering from enumerate(script.splitlines()) without start=1.
ExecutionResult_FromZero(line_number, line, command, success, result, error) ==
    [line_number |-> line_number - 1, line |-> line, command |-> command,
     success |-> success, result |-> result, error |-> error]

\* ExecutionResult
ExecutionResult(line_number, line, command, success, result, error) ==
    [line_number |-> line_number, line |-> line, command |-> command,
     success |-> success, result |-> result, error |-> error]

\* The keys of DSLExecutor._command_table
CommandTable ==
    { <<"LIST_FILES">>, <<"GET_FILE_NAME">>, <<"GET_FILE_SIZE">>, <<"RENAME_FILE">>,
      <<"CREATE_FOLDER">>, <<"RENAME_FOLDER">>, <<"MOVE_FILE">> }

\* A check that only asks for enough arguments.
_require_args_AtLeast(args, expected) ==
    IF Len(args) < expected
    THEN Some(Exc("ValueError", "{name} expects {expected} argument(s), got {len(args)}"))
    ELSE None

\* _require_args(args, expected, name): the ValueError it raises, if any.
_require_args(args, expected) ==
    IF Len(args) # expected
    THEN Some(Exc("ValueError", "{name} expects {expected} argument(s), got {len(args)}"))
    ELSE None

_cmd_list_files(fs, cwd, args) ==
    LET listed == list_files_in_folder(fs, cwd, args[1])
    IN IF _require_args(args, 1) # None THEN Raise(fs, cwd, _require_args(args, 1)[1])
       ELSE IF Raised(listed) THEN listed
       ELSE Return(fs, cwd, ListingValue(Locate(cwd, Path(args[1])), listed.value[1]))

_cmd_get_file_name(fs, cwd, args) ==
    IF _require_args(args, 1) # None THEN Raise(fs, cwd, _require_args(args, 1)[1])
    ELSE get_file_name(fs, cwd, args[1])

_cmd_get_file_size(fs, cwd, args) ==
    IF _require_args(args, 1) # None THEN Raise(fs, cwd, _require_args(args, 1)[1])
    ELSE get_file_size(fs, cwd, args[1])

_cmd_rename_file(fs, cwd, args) ==
    IF _require_args(args, 2) # None THEN Raise(fs, cwd, _require_args(args, 2)[1])
    ELSE rename_file(fs, cwd, args[1], args[2])

\* A handler that calls create_folder with exist_ok=False.
_cmd_create_folder_Strict(fs, cwd, args) ==
    IF _require_args(args, 1) # None THEN Raise(fs, cwd, _require_args(args, 1)[1])
    ELSE create_folder(fs, cwd, args[1], FALSE)

_cmd_create_folder(fs, cwd, args) ==
    IF _require_args(args, 1) # None THEN Raise(fs, cwd, _require_args(args, 1)[1])
    ELSE create_folder(fs, cwd, args[1], TRUE)

_cmd_rename_folder(fs, cwd, args) ==
    IF _require_args(args, 2) # None THEN Raise(fs, cwd, _require_args(args, 2)[1])
    ELSE rename_folder(fs, cwd, args[1], args[2])

\* A handler that always passes overwrite=True.
OverwriteFlag_Always(args) == TRUE

\* flag = args[2].upper(); overwrite when flag == "OVERWRITE"
OverwriteFlag(args) == Len(args) = 3 /\ upper(args[3]) = <<"OVERWRITE">>

_cmd_move_file(fs, cwd, args) ==
    IF Len(args) \notin {2, 3}
    THEN Raise(fs, cwd, Exc("ValueError", "MOVE_FILE expects 2 or 3 arguments"))
    ELSE IF Len(args) = 3 /\ ~OverwriteFlag(args)
    THEN Raise(fs, cwd, Exc("ValueError", "MOVE_FILE third argument must be OVERWRITE if provided."))
    ELSE move_file(fs, cwd, args[1], args[2], OverwriteFlag(args))

\* self._command_table[command](args)
Handler(command, fs, cwd, args) ==
    CASE command = <<"LIST_FILES">> -> _cmd_list_files(fs, cwd, args)
      [] command = <<"GET_FILE_NAME">> -> _cmd_get_file_name(fs, cwd, args)
      [] command = <<"GET_FILE_SIZE">> -> _cmd_get_file_size(fs, cwd, args)
      [] command = <<"RENAME_FILE">> -> _cmd_rename_file(fs, cwd, args)
      [] command = <<"CREATE_FOLDER">> -> _cmd_create_folder(fs, cwd, args)
      [] command = <<"RENAME_FOLDER">> -> _cmd_rename_folder(fs, cwd, args)
      [] command = <<"MOVE_FILE">> -> _cmd_move_file(fs, cwd, args)

\* What run_script_text does with the tokens of a line, past the
\* tokenizer: the command it records and the outcome of the dispatch.
Execute(fs, cwd, tokens) ==
    LET command == upper(tokens[1])
    IN [command |-> command,
        outcome |-> IF command \notin CommandTable
                    THEN Raise(fs, cwd, Exc("ValueError", "Unknown command: {command}"))
                    ELSE Handler(command, fs, cwd, Tail(tokens))]

\* An except clause around the handler that names the errors the library
\* documents, and so misses the one shutil raises.
ExceptException_Documented ==
    {"ValueError", "FileNotFoundError", "FileExistsError",
     "NotADirectoryError", "IsADirectoryError", "PermissionError"}

\* No except clause around shlex.split.
ExceptValueError_Absent == { }

\* except ValueError (around shlex.split) and except Exception (around the
\* handler): the exception classes each clause catches.
ExceptValueError == {"ValueError"}
ExceptException ==
    {"ValueError", "OSError", "FileNotFoundError", "FileExistsError",
     "NotADirectoryError", "IsADirectoryError", "PermissionError", "Error"}

(***************************************************************************)
(* The scripts and filesystems the runs start from.  Three families of     *)
(* scripts: every short text over the characters of the lexical rules;     *)
(* every single command line over a wide choice of keywords and            *)
(* arguments; every sequence of a few lines out of a narrower choice.      *)
(***************************************************************************)
MaxTextLen == 4
MaxArgs == 4
MaxLines == 2

SeqsUpTo(S, n) == UNION {[1..k -> S] : k \in 0..n}

LexAlphabet == {SP, NL, HASH, DQ, SQ, BS, "x"}
LexTexts == SeqsUpTo(LexAlphabet, MaxTextLen)

RECURSIVE JoinWith(_, _)
JoinWith(sep, ws) ==
    IF ws = << >> THEN << >>
    ELSE IF Len(ws) = 1 THEN ws[1]
    ELSE ws[1] \o << sep >> \o JoinWith(sep, Tail(ws))

\* A command line: its words separated by single spaces.
Line(ws) == JoinWith(SP, ws)

\* Path words over the entries a, b, d of the working directory and the
\* name n that no entry has at the start; Wempty is the empty word.
Wa == << "a" >>
Wb == << "b" >>
Wd == << "d" >>
Wn == << "n" >>
Wda == << "d", SEP, "a" >>
Wdb == << "d", SEP, "b" >>
Wnb == << "n", SEP, "b" >>
Wan == << "a", SEP, "n" >>
Wroota == << SEP, "a" >>
Wempty == << DQ, DQ >>

PathWords == {Wa, Wb, Wd, Wn, Wda, Wdb, Wnb, Wan, Wroota, Wempty}

Kw(k) == << k >>

KeywordWords ==
    { Kw("LIST_FILES"), Kw("GET_FILE_NAME"), Kw("GET_FILE_SIZE"), Kw("RENAME_FILE"),
      Kw("CREATE_FOLDER"), Kw("RENAME_FOLDER"), Kw("MOVE_FILE"),
      Kw("list_files"), Kw("get_file_name"), Kw("get_file_size"), Kw("rename_file"),
      Kw("create_folder"), Kw("rename_folder"), Kw("move_file"),
      Kw("Move_File"), Kw("FOO"), Kw("foo"), Wempty }

FlagWords == { Kw("OVERWRITE"), Kw("overwrite"), Kw("FOO") }

\* Argument lists: up to two path words; two path words and a third word;
\* longer lists, up to MaxArgs words.
ArgLists ==
    SeqsUpTo(PathWords, 2)
        \cup { <<p, q, f>> : p \in PathWords, q \in PathWords, f \in FlagWords }
        \cup { <<Wa, Wn, Kw("OVERWRITE")>> \o [i \in 1..k |-> Wb] : k \in 1..(MaxArgs - 3) }

WideLines == { Line(<<k>> \o args) : k \in KeywordWords, args \in ArgLists }

OneLineTexts == WideLines

\* The lines of the longer scripts.
ScriptLines ==
    { << HASH, SP, "x" >>,
      Line(<<Kw("FOO"), Wa>>),
      << "MOVE_FILE", SP, DQ, "a" >>,
      Line(<<Kw("CREATE_FOLDER")>>),
      Line(<<Kw("MOVE_FILE"), Wa>>),
      Line(<<Kw("LIST_FILES"), Wd>>),
      Line(<<Kw("GET_FILE_SIZE"), Wa>>),
      Line(<<Kw("CREATE_FOLDER"), Wn>>),
      Line(<<Kw("create_folder"), Wn>>),
      Line(<<Kw("CREATE_FOLDER"), Wd>>),
      Line(<<Kw("CREATE_FOLDER"), Wnb>>),
      Line(<<Kw("CREATE_FOLDER"), Wdb>>),
      Line(<<Kw("RENAME_FILE"), Wa, Wn>>),
      Line(<<Kw("RENAME_FILE"), Wa, Wb>>),
      Line(<<Kw("RENAME_FOLDER"), Wd, Wn>>),
      Line(<<Kw("RENAME_FOLDER"), Wd, Wa>>),
      Line(<<Kw("MOVE_FILE"), Wa, Wd>>),
      Line(<<Kw("MOVE_FILE"), Wb, Wd>>),
      Line(<<Kw("MOVE_FILE"), Wa, Wb>>),
      Line(<<Kw("MOVE_FILE"), Wa, Wn>>),
      Line(<<Kw("MOVE_FILE"), Wa, Wd, Kw("OVERWRITE")>>),
      Line(<<Kw("MOVE_FILE"), Wb, Wd, Kw("OVERWRITE")>>),
      Line(<<Kw("MOVE_FILE"), Wa, Wb, Kw("OVERWRITE")>>),
      Line(<<Kw("MOVE_FILE"), Wa, Wa, Kw("OVERWRITE")>>) }

CmdTexts == { JoinWith(NL, ls) : ls \in SeqsUpTo(ScriptLines, MaxLines) }

\* Three trees.  All have a file a, a file b and a directory d; in the
\* first d holds a file a, in the second b is empty and d holds an empty
\* directory b, in the third d holds a directory b that holds a file b.
Path1(x) == << << x >> >>
Path2(x, y) == << << x >>, << y >> >>
Path3(x, y, z) == << << x >>, << y >>, << z >> >>

Tree(entries) ==
    [q \in {<< >>} \cup {e[1] : e \in entries} |->
        IF q = << >> THEN DirNode ELSE (CHOOSE e \in entries : e[1] = q)[2]]

Tree1 ==
    Tree({ <<Path1("a"), FileNode(<<1>>)>>, <<Path1("b"), FileNode(<<2, 2>>)>>,
           <<Path1("d"), DirNode>>, <<Path2("d", "a"), FileNode(<<3>>)>> })

Tree2 ==
    Tree({ <<Path1("a"), FileNode(<<1>>)>>, <<Path1("b"), FileNode(<< >>)>>,
           <<Path1("d"), DirNode>>, <<Path2("d", "b"), DirNode>> })

Tree3 ==
    Tree({ <<Path1("a"), FileNode(<<1>>)>>, <<Path1("b"), FileNode(<<2>>)>>,
           <<Path1("d"), DirNode>>, <<Path2("d", "b"), DirNode>>,
           <<Path3("d", "b", "b"), FileNode(<<3>>)>> })

InitialTrees == {Tree1, Tree2}

(***************************************************************************)
(* DSLExecutor.run_script_text(script), one step per physical line.        *)
(***************************************************************************)
VARIABLES
    script,     \* the text passed to run_script_text
    lines,      \* script.splitlines()
    index,      \* the number of physical lines the loop has gone through
    results,    \* the log
    fs,         \* the filesystem
    cwd,        \* the process working directory
    pc,         \* "loop" in the for loop, "done" after return results,
                \* "raised" when an exception left the call; in
                \* run_script_file also "read", "getcwd", "chdir" before the
                \* loop, "finally" when chdir raised, and "returned" or
                \* "failed" at the end
    fsTrace,    \* history: fsTrace[k + 1] is the filesystem after line k
    file,       \* the locals of run_script_file, None in run_script_text
    other,      \* the locals of a second run that is waiting for the
                \* processor, None when there is one run
    echo,       \* self.echo
    stdout,     \* the lines printed so far
    move,       \* the locals of a call of move_file that is looked at
                \* statement by statement, None otherwise
    op          \* a call of a function of file_manager on its own: the
                \* function, its arguments and its outcome, None otherwise

vars == << script, lines, index, results, fs, cwd, pc, fsTrace, file, other, echo, stdout, move, op >>

\* not (not line or line.startswith("#"))
IsCandidate(raw_line) ==
    strip(raw_line) # << >> /\ ~startswith(strip(raw_line), HASH)

Tokenized(raw_line) == shlex_split(strip(raw_line))

Init ==
    /\ \/ script \in LexTexts /\ fs = Tree1 /\ echo = TRUE
       \/ script \in SeqsUpTo(LexAlphabet, MaxTextLen - 1) /\ fs = Tree1 /\ echo = FALSE
       \/ script \in OneLineTexts \cup CmdTexts /\ fs \in InitialTrees /\ echo = TRUE
       \/ script \in OneLineTexts /\ fs = Tree3 /\ echo = TRUE
       \/ script \in ScriptLines /\ fs = Tree1 /\ echo = FALSE
    /\ lines = splitlines(script)
    /\ index = 0
    /\ results = << >>
    /\ cwd = << >>
    /\ pc = "loop"
    /\ fsTrace = << fs >>
    /\ file = None
    /\ other = None
    /\ stdout = << >>
    /\ move = None
    /\ op = None

AtLine == pc = "loop" /\ index < Len(lines)

\* A printed line: the f-string and what it is filled with.
Printed(format, line_number, command, payload) ==
    [format |-> format, line_number |-> line_number, command |-> command,
     payload |-> payload]

Echo_Silent(text) == UNCHANGED stdout

\* if self.echo: print(text)
Echo(text) == stdout' = IF echo THEN Append(stdout, text) ELSE stdout

NextLine ==
    /\ index' = index + 1
    /\ fsTrace' = Append(fsTrace, fs')
    /\ UNCHANGED << script, lines, pc, file, other, echo, move, op >>

\* continue: a blank line, a comment, or a line without tokens
SkipLine ==
    /\ AtLine
    /\ LET raw_line == lines[index + 1]
           tokens == Tokenized(raw_line)
       IN IsCandidate(raw_line) => (tokens.ok /\ tokens.tokens = << >>)
    /\ UNCHANGED << results, fs, cwd, stdout >>
    /\ NextLine

\* A parse error recorded under the command name "".
ParseErrorLine_NamesCommand ==
    /\ AtLine
    /\ LET raw_line == lines[index + 1]
           tokens == Tokenized(raw_line)
           e == Exc("ValueError", tokens.msg)
       IN /\ IsCandidate(raw_line)
          /\ ~tokens.ok
          /\ results' = Append(results,
                ExecutionResult(index + 1, raw_line, Some(<< >>), FALSE, None, Some(e)))
          /\ Echo(Printed("[Line {index}] Parse error: {e}", index + 1, None, Some(e)))
          /\ UNCHANGED << fs, cwd >>
          /\ NextLine

\* shlex.split raised
ParseErrorLine ==
    /\ AtLine
    /\ LET raw_line == lines[index + 1]
           tokens == Tokenized(raw_line)
           e == Exc("ValueError", tokens.msg)
       IN /\ IsCandidate(raw_line)
          /\ ~tokens.ok
          /\ IF e.cls \in ExceptValueError
             THEN /\ results' = Append(results,
                        ExecutionResult(index + 1, raw_line, None, FALSE, None, Some(e)))
                  /\ Echo(Printed("[Line {index}] Parse error: {e}", index + 1, None, Some(e)))
                  /\ UNCHANGED << fs, cwd >>
                  /\ NextLine
             ELSE /\ pc' = "raised"
                  /\ UNCHANGED << script, lines, index, results, fs, cwd, fsTrace,
                                  file, other, echo, stdout, move, op >>

\* The line reaches the dispatch with this keyword:
\* command = tokens[0].upper(); handler = self._command_table.get(command)
Dispatched(keyword) ==
    LET raw_line == lines[index + 1]
        tokens == Tokenized(raw_line)
    IN /\ IsCandidate(raw_line)
       /\ tokens.ok
       /\ tokens.tokens # << >>
       /\ upper(tokens.tokens[1]) = keyword

\* args = tokens[1:]
Args == Tail(Tokenized(lines[index + 1]).tokens)

\* A dispatch without the handler is None branch: the call of None raises
\* a TypeError inside the try.
UnknownCommandLine_CallsNone ==
    /\ AtLine
    /\ Tokenized(lines[index + 1]).tokens # << >>
    /\ LET command == upper(Head(Tokenized(lines[index + 1]).tokens))
       IN /\ Dispatched(command)
          /\ command \notin CommandTable
          /\ results' = Append(results,
                ExecutionResult(index + 1, lines[index + 1], Some(command), FALSE,
                                None, Some(Exc("TypeError", "'NoneType' object is not callable"))))
          /\ Echo(Printed("[Line {index}] {command} ERROR: {e}", index + 1, Some(command),
                          Some(Exc("TypeError", "'NoneType' object is not callable"))))
    /\ UNCHANGED << fs, cwd >>
    /\ NextLine

\* handler is None
UnknownCommandLine ==
    /\ AtLine
    /\ Tokenized(lines[index + 1]).tokens # << >>
    /\ LET command == upper(Head(Tokenized(lines[index + 1]).tokens))
       IN /\ Dispatched(command)
          /\ command \notin CommandTable
          /\ results' = Append(results,
                ExecutionResult(index + 1, lines[index + 1], Some(command), FALSE,
                                None, Some(Exc("ValueError", "Unknown command: {command}"))))
          /\ Echo(Printed("[Line {index}] {err}", index + 1, Some(command),
                          Some(Exc("ValueError", "Unknown command: {command}"))))
    /\ UNCHANGED << fs, cwd >>
    /\ NextLine

\* try: value = handler(args) ... except Exception as e: ...
\* o is the outcome of handler(args).
Handled(keyword, o) ==
    IF Raised(o) /\ o.error[1].cls \notin ExceptException
    THEN /\ pc' = "raised"
         /\ fs' = o.fs
         /\ cwd' = o.cwd
         /\ UNCHANGED << script, lines, index, results, fsTrace, file, other, echo, stdout, move, op >>
    ELSE /\ results' = Append(results,
                ExecutionResult(index + 1, lines[index + 1], Some(keyword),
                                ~Raised(o), o.value, o.error))
         /\ IF Raised(o)
            THEN Echo(Printed("[Line {index}] {command} ERROR: {e}", index + 1,
                              Some(keyword), o.error))
            ELSE Echo(Printed("[Line {index}] {command} -> {value}", index + 1,
                              Some(keyword), o.value))
         /\ fs' = o.fs
         /\ cwd' = o.cwd
         /\ NextLine

CmdListFiles ==
    /\ AtLine
    /\ Dispatched(<<"LIST_FILES">>)
    /\ Handled(<<"LIST_FILES">>, _cmd_list_files(fs, cwd, Args))

CmdGetFileName ==
    /\ AtLine
    /\ Dispatched(<<"GET_FILE_NAME">>)
    /\ Handled(<<"GET_FILE_NAME">>, _cmd_get_file_name(fs, cwd, Args))

CmdGetFileSize ==
    /\ AtLine
    /\ Dispatched(<<"GET_FILE_SIZE">>)
    /\ Handled(<<"GET_FILE_SIZE">>, _cmd_get_file_size(fs, cwd, Args))

CmdRenameFile ==
    /\ AtLine
    /\ Dispatched(<<"RENAME_FILE">>)
    /\ Handled(<<"RENAME_FILE">>, _cmd_rename_file(fs, cwd, Args))

CmdCreateFolder ==
    /\ AtLine
    /\ Dispatched(<<"CREATE_FOLDER">>)
    /\ Handled(<<"CREATE_FOLDER">>, _cmd_create_folder(fs, cwd, Args))

CmdRenameFolder ==
    /\ AtLine
    /\ Dispatched(<<"RENAME_FOLDER">>)
    /\ Handled(<<"RENAME_FOLDER">>, _cmd_rename_folder(fs, cwd, Args))

CmdMoveFile ==
    /\ AtLine
    /\ Dispatched(<<"MOVE_FILE">>)
    /\ Handled(<<"MOVE_FILE">>, _cmd_move_file(fs, cwd, Args))

\* return results
ReturnResults ==
    /\ pc = "loop"
    /\ index = Len(lines)
    /\ pc' = "done"
    /\ UNCHANGED << script, lines, index, results, fs, cwd, fsTrace, file, other, echo, stdout, move, op >>

Next ==
    \/ SkipLine
    \/ ParseErrorLine
    \/ UnknownCommandLine
    \/ CmdListFiles
    \/ CmdGetFileName
    \/ CmdGetFileSize
    \/ CmdRenameFile
    \/ CmdCreateFolder
    \/ CmdRenameFolder
    \/ CmdMoveFile
    \/ ReturnResults

Spec == Init /\ [][Next]_vars

(***************************************************************************)
(* DSLExecutor.run_script_file(script_path).  The script is a regular file *)
(* of the filesystem, its bytes the text; the run reads it, changes the    *)
(* process working directory to the directory of the file, goes through    *)
(* the loop of run_script_text, and changes the working directory back.    *)
(***************************************************************************)
FileLocals(script_path) ==
    [script_path |-> script_path, path |-> None, original_cwd |-> None, error |-> None]

\* path = Path(script_path).resolve()
Resolve(wd, script_path) == Locate(wd, Path(script_path))

\* path.read_text(encoding="utf-8"): the exception it raises without
\* looking at the bytes, if any.
read_text_error(f, at) ==
    IF WalkError(f, at, 0) # None THEN WalkError(f, at, 0)
    ELSE IF ~FsExists(f, at) THEN Some(Exc("FileNotFoundError", "ENOENT"))
    ELSE IF FsIsDir(f, at) THEN Some(Exc("IsADirectoryError", "EISDIR"))
    ELSE None

\* os.chdir(wd): the exception it raises, if any.
chdir_error(f, wd) ==
    IF WalkError(f, wd, 0) # None THEN WalkError(f, wd, 0)
    ELSE IF ~FsExists(f, wd) THEN Some(Exc("FileNotFoundError", "ENOENT"))
    ELSE IF ~FsIsDir(f, wd) THEN Some(Exc("NotADirectoryError", "ENOTDIR"))
    ELSE None

ReadScript_ChdirFirst ==
    /\ pc = "read"
    /\ LET at == Resolve(cwd, file[1].script_path)
           e == read_text_error(fs, at)
       IN \/ /\ e # None
             /\ pc' = "failed"
             /\ file' = [file EXCEPT ![1].error = e]
             /\ cwd' = IF chdir_error(fs, Front(at)) = None THEN Front(at) ELSE cwd
             /\ UNCHANGED << script, lines >>
          \/ /\ e = None
             /\ file' = [file EXCEPT ![1].path = Some(at)]
             /\ script' = fs[at].data
             /\ lines' = splitlines(fs[at].data)
             /\ pc' = "getcwd"
             /\ UNCHANGED cwd
    /\ UNCHANGED << index, results, fs, fsTrace, other, echo, stdout, move, op >>

\* path = Path(script_path).resolve(); text = path.read_text(encoding="utf-8")
\* A regular file may be unreadable too (no permission, bytes that are not
\* UTF-8); the filesystem of the model does not say which, so both happen.
ReadScript ==
    /\ pc = "read"
    /\ LET at == Resolve(cwd, file[1].script_path)
           e == read_text_error(fs, at)
       IN \/ /\ e # None
             /\ pc' = "failed"
             /\ file' = [file EXCEPT ![1].error = e]
             /\ UNCHANGED << script, lines >>
          \/ /\ e = None
             /\ \E cls \in {"PermissionError", "UnicodeDecodeError"} :
                   file' = [file EXCEPT ![1].error = Some(Exc(cls, "read_text"))]
             /\ pc' = "failed"
             /\ UNCHANGED << script, lines >>
          \/ /\ e = None
             /\ file' = [file EXCEPT ![1].path = Some(at)]
             /\ script' = fs[at].data
             /\ lines' = splitlines(fs[at].data)
             /\ pc' = "getcwd"
    /\ UNCHANGED << index, results, fs, cwd, fsTrace, other, echo, stdout, move, op >>

\* original_cwd = os.getcwd()
GetCwd ==
    /\ pc = "getcwd"
    /\ file' = [file EXCEPT ![1].original_cwd = Some(cwd)]
    /\ pc' = "chdir"
    /\ UNCHANGED << script, lines, index, results, fs, cwd, fsTrace, other, echo, stdout, move, op >>

\* A run that goes into the loop without changing directory.
ChdirToScript_Stay ==
    /\ pc = "chdir"
    /\ pc' = "loop"
    /\ index' = 0
    /\ results' = << >>
    /\ fsTrace' = << fs >>
    /\ UNCHANGED << script, lines, fs, cwd, file, other, echo, stdout, move, op >>

\* try: os.chdir(str(path.parent)); return self.run_script_text(text)
ChdirToScript ==
    /\ pc = "chdir"
    /\ LET parent == Front(file[1].path[1])
       IN IF chdir_error(fs, parent) = None
          THEN /\ cwd' = parent
               /\ pc' = "loop"
               /\ index' = 0
               /\ results' = << >>
               /\ fsTrace' = << fs >>
               /\ UNCHANGED file
          ELSE /\ pc' = "finally"
               /\ file' = [file EXCEPT ![1].error = chdir_error(fs, parent)]
               /\ UNCHANGED << cwd, index, results, fsTrace >>
    /\ UNCHANGED << script, lines, fs, other, echo, stdout, move, op >>

\* finally: os.chdir(original_cwd), then the return or the exception.
RestoreCwd ==
    /\ file # None
    /\ pc \in {"done", "raised", "finally"}
    /\ LET back == file[1].original_cwd[1]
       IN IF chdir_error(fs, back) = None
          THEN /\ cwd' = back
               /\ pc' = IF pc = "done" THEN "returned" ELSE "failed"
               /\ UNCHANGED file
          ELSE /\ pc' = "failed"
               /\ file' = [file EXCEPT ![1].error = chdir_error(fs, back)]
               /\ UNCHANGED cwd
    /\ UNCHANGED << script, lines, index, results, fs, fsTrace, other, echo, stdout, move, op >>

\* Two runs in one process: the processor goes from the run it was running
\* to the run that was waiting.
Locals ==
    [script |-> script, lines |-> lines, index |-> index, results |-> results,
     pc |-> pc, fsTrace |-> fsTrace, file |-> file]

ContextSwitch ==
    /\ other # None
    /\ other[1].pc \notin {"returned", "failed"}
    /\ script' = other[1].script
    /\ lines' = other[1].lines
    /\ index' = other[1].index
    /\ results' = other[1].results
    /\ pc' = other[1].pc
    /\ fsTrace' = other[1].fsTrace
    /\ file' = other[1].file
    /\ other' = Some(Locals)
    /\ UNCHANGED << fs, cwd, echo, stdout, move, op >>

(***************************************************************************)
(* Runs of run_script_file.  The root holds a file a, the directory w of   *)
(* the caller with a file a, and the script directories s and t; each      *)
(* holds its script x, a file a of its own and a directory d;  s holds a   *)
(* file b as well, and s/d a file a.                                       *)
(***************************************************************************)
Ww == << SEP, "w" >>

FileLines ==
    { << HASH, SP, "x" >>,
      Line(<<Kw("FOO"), Wa>>),
      << "MOVE_FILE", SP, DQ, "a" >>,
      Line(<<Kw("LIST_FILES"), Wd>>),
      Line(<<Kw("GET_FILE_NAME"), Wroota>>),
      Line(<<Kw("GET_FILE_SIZE"), Wa>>),
      Line(<<Kw("CREATE_FOLDER"), Wn>>),
      Line(<<Kw("RENAME_FILE"), Wa, Wn>>),
      Line(<<Kw("RENAME_FOLDER"), Wd, Wn>>),
      Line(<<Kw("RENAME_FOLDER"), Ww, Wn>>),
      Line(<<Kw("MOVE_FILE"), Wa, Wd>>),
      Line(<<Kw("MOVE_FILE"), Wroota, Wd>>) }

FileTexts == { JoinWith(NL, ls) : ls \in SeqsUpTo(FileLines, MaxLines) }
ConcTexts == { JoinWith(NL, ls) : ls \in SeqsUpTo(FileLines, 1) }

FileTree(text_s, text_t) ==
    Tree({ <<Path1("a"), FileNode(<<9, 9, 9>>)>>,
           <<Path1("w"), DirNode>>, <<Path2("w", "a"), FileNode(<<8, 8>>)>>,
           <<Path1("s"), DirNode>>, <<Path2("s", "x"), FileNode(text_s)>>,
           <<Path2("s", "a"), FileNode(<<1>>)>>, <<Path2("s", "b"), FileNode(<<2, 2>>)>>,
           <<Path2("s", "d"), DirNode>>, <<Path3("s", "d", "a"), FileNode(<<3>>)>>,
           <<Path1("t"), DirNode>>, <<Path2("t", "x"), FileNode(text_t)>>,
           <<Path2("t", "a"), FileNode(<<5>>)>>, <<Path2("t", "d"), DirNode>> })

\* The calls: the working directory of the caller and the script path.
\* The last three name no file, a directory, and a path through a file.
FileCalls ==
    { [cwd |-> << >>, script_path |-> << "s", SEP, "x" >>],
      [cwd |-> Path1("w"), script_path |-> << SEP, "s", SEP, "x" >>],
      [cwd |-> Path1("w"), script_path |-> << SEP, "s", SEP, "n" >>],
      [cwd |-> << >>, script_path |-> << "s", SEP, "d" >>],
      [cwd |-> Path1("w"), script_path |-> << SEP, "s", SEP, "a", SEP, "x" >>] }

FileInit ==
    \E text \in FileTexts : \E call \in FileCalls :
        /\ fs = FileTree(text, << >>)
        /\ cwd = call.cwd
        /\ file = Some(FileLocals(call.script_path))
        /\ script = << >>
        /\ lines = << >>
        /\ index = 0
        /\ results = << >>
        /\ pc = "read"
        /\ fsTrace = << fs >>
        /\ other = None
        /\ echo = TRUE
        /\ stdout = << >>
        /\ move = None
        /\ op = None

FileNext ==
    \/ ReadScript
    \/ GetCwd
    \/ ChdirToScript
    \/ SkipLine
    \/ ParseErrorLine
    \/ UnknownCommandLine
    \/ CmdListFiles
    \/ CmdGetFileName
    \/ CmdGetFileSize
    \/ CmdRenameFile
    \/ CmdCreateFolder
    \/ CmdRenameFolder
    \/ CmdMoveFile
    \/ ReturnResults
    \/ RestoreCwd

FileSpec == FileInit /\ [][FileNext]_vars

\* Two runs in one process, called from the directory w with the paths
\* /s/x and /t/x.
ConcInit ==
    \E text_s \in ConcTexts : \E text_t \in ConcTexts :
        /\ fs = FileTree(text_s, text_t)
        /\ cwd = Path1("w")
        /\ file = Some(FileLocals(<< SEP, "s", SEP, "x" >>))
        /\ script = << >>
        /\ lines = << >>
        /\ index = 0
        /\ results = << >>
        /\ pc = "read"
        /\ fsTrace = << fs >>
        /\ other = Some([script |-> << >>, lines |-> << >>, index |-> 0,
                         results |-> << >>, pc |-> "read", fsTrace |-> << fs >>,
                         file |-> Some(FileLocals(<< SEP, "t", SEP, "x" >>))])
        /\ echo = TRUE
        /\ stdout = << >>
        /\ move = None
        /\ op = None

ConcNext == FileNext \/ ContextSwitch

ConcSpec == ConcInit /\ [][ConcNext]_vars

(***************************************************************************)
(* file_manager.move_file, statement by statement: the checks, the removal *)
(* of the destination, the creation of its parents, the move.  Each of the *)
(* three system calls can also be refused by the system (PermissionError,  *)
(* which the docstring lists) and then changes nothing.                    *)
(***************************************************************************)
MoveLocals(source_path, destination_path, overwrite, fs0) ==
    [source_path |-> source_path, destination_path |-> destination_path,
     overwrite |-> overwrite, dest |-> None, value |-> None, error |-> None,
     before |-> fs0, removed |-> FALSE, refused |-> FALSE]

MoveSrc == Path(move[1].source_path)
MoveDest == move[1].dest[1]

MoveRaise(e) ==
    /\ pc' = "mv_raised"
    /\ move' = [move EXCEPT ![1].error = Some(e)]
    /\ UNCHANGED << fs, cwd >>

MoveRefused ==
    /\ pc' = "mv_raised"
    /\ move' = [move EXCEPT ![1].error = Some(Exc("PermissionError", "EACCES")),
                            ![1].refused = TRUE]
    /\ UNCHANGED << fs, cwd >>

\* src = Path(source_path) ... if not overwrite: raise FileExistsError(...)
MoveChecks ==
    /\ pc = "mv_check"
    /\ LET dest == EffectiveDest(fs, cwd, MoveSrc, Path(move[1].destination_path))
       IN IF ~exists(fs, cwd, MoveSrc)
          THEN MoveRaise(Exc("FileNotFoundError", "Source file does not exist"))
          ELSE IF ~is_file(fs, cwd, MoveSrc)
          THEN MoveRaise(Exc("IsADirectoryError", "Source path is not a file"))
          ELSE IF exists(fs, cwd, dest) /\ ~move[1].overwrite
          THEN MoveRaise(Exc("FileExistsError", "Destination file already exists"))
          ELSE /\ move' = [move EXCEPT ![1].dest = Some(dest)]
               /\ pc' = IF exists(fs, cwd, dest) /\ is_file(fs, cwd, dest)
                        THEN "mv_unlink" ELSE "mv_mkdir"
               /\ UNCHANGED << fs, cwd >>
    /\ UNCHANGED << script, lines, index, results, fsTrace, file, other, echo, stdout, op >>

\* if dest.is_file(): dest.unlink()
MoveUnlink ==
    /\ pc = "mv_unlink"
    /\ \/ /\ fs' = unlink(fs, Locate(cwd, MoveDest))
          /\ move' = [move EXCEPT ![1].removed = TRUE]
          /\ pc' = "mv_mkdir"
          /\ UNCHANGED cwd
       \/ MoveRefused
    /\ UNCHANGED << script, lines, index, results, fsTrace, file, other, echo, stdout, op >>

\* dest.parent.mkdir(parents=True, exist_ok=True)
MoveMkdir ==
    /\ pc = "mv_mkdir"
    /\ LET made == mkdir(fs, cwd, Front(Locate(cwd, MoveDest)), TRUE, TRUE)
       IN \/ IF Raised(made)
             THEN MoveRaise(made.error[1])
             ELSE /\ fs' = made.fs
                  /\ pc' = "mv_move"
                  /\ UNCHANGED << cwd, move >>
          \/ MoveRefused
    /\ UNCHANGED << script, lines, index, results, fsTrace, file, other, echo, stdout, op >>

\* shutil.move(str(src), str(dest)); return dest
MoveShutil ==
    /\ pc = "mv_move"
    /\ LET moved == shutil_move(fs, cwd, Locate(cwd, MoveSrc), Locate(cwd, MoveDest))
       IN \/ IF Raised(moved)
             THEN MoveRaise(moved.error[1])
             ELSE /\ fs' = moved.fs
                  /\ cwd' = moved.cwd
                  /\ move' = [move EXCEPT ![1].value = Some(PathValue(MoveDest))]
                  /\ pc' = "mv_returned"
          \/ MoveRefused
    /\ UNCHANGED << script, lines, index, results, fsTrace, file, other, echo, stdout, op >>

\* The arguments: the path words as the tokenizer hands them on.
ArgWords == (PathWords \ {Wempty}) \cup {<< >>}

MoveInit ==
    \E source_path \in ArgWords : \E destination_path \in ArgWords :
      \E overwrite \in BOOLEAN :
        /\ fs \in {Tree1, Tree2, Tree3}
        /\ cwd = << >>
        /\ move = Some(MoveLocals(source_path, destination_path, overwrite, fs))
        /\ op = None
        /\ pc = "mv_check"
        /\ script = << >>
        /\ lines = << >>
        /\ index = 0
        /\ results = << >>
        /\ fsTrace = << fs >>
        /\ file = None
        /\ other = None
        /\ echo = TRUE
        /\ stdout = << >>

MoveNext == MoveChecks \/ MoveUnlink \/ MoveMkdir \/ MoveShutil

MoveSpec == MoveInit /\ [][MoveNext]_vars

(***************************************************************************)
(* The functions of file_manager called on their own, one call each, on    *)
(* every tree and every choice of arguments.                               *)
(***************************************************************************)
\* flag is exist_ok for create_folder and overwrite for move_file.
OpCalls ==
    { [function |-> f, args |-> << p >>, flag |-> FALSE] :
        f \in {"list_files_in_folder", "get_file_name", "get_file_size"},
        p \in ArgWords }
    \cup { [function |-> f, args |-> << p, n >>, flag |-> FALSE] :
        f \in {"rename_file", "rename_folder"}, p \in ArgWords, n \in ArgWords }
    \cup { [function |-> "create_folder", args |-> << p >>, flag |-> exist_ok] :
        p \in ArgWords, exist_ok \in BOOLEAN }
    \cup { [function |-> "move_file", args |-> << p, q >>, flag |-> overwrite] :
        p \in ArgWords, q \in ArgWords, overwrite \in BOOLEAN }

OpInit ==
    \E c \in OpCalls :
        /\ fs \in {Tree1, Tree2, Tree3}
        /\ cwd = << >>
        /\ op = Some([function |-> c.function, args |-> c.args, flag |-> c.flag,
                     outcome |-> None])
        /\ pc = "op_call"
        /\ script = << >>
        /\ lines = << >>
        /\ index = 0
        /\ results = << >>
        /\ fsTrace = << fs >>
        /\ file = None
        /\ other = None
        /\ echo = TRUE
        /\ stdout = << >>
        /\ move = None

OpCalled(function) == pc = "op_call" /\ op[1].function = function

\* The call returns or raises.
OpEnds(o) ==
    /\ op' = [op EXCEPT ![1].outcome = Some(o)]
    /\ fs' = o.fs
    /\ cwd' = o.cwd
    /\ pc' = "op_done"
    /\ UNCHANGED << script, lines, index, results, fsTrace, file, other, echo, stdout, move >>

CallListFiles ==
    /\ OpCalled("list_files_in_folder")
    /\ OpEnds(list_files_in_folder(fs, cwd, op[1].args[1]))

CallGetFileName ==
    /\ OpCalled("get_file_name")
    /\ OpEnds(get_file_name(fs, cwd, op[1].args[1]))

CallGetFileSize ==
    /\ OpCalled("get_file_size")
    /\ OpEnds(get_file_size(fs, cwd, op[1].args[1]))

CallRenameFile ==
    /\ OpCalled("rename_file")
    /\ OpEnds(rename_file(fs, cwd, op[1].args[1], op[1].args[2]))

CallCreateFolder ==
    /\ OpCalled("create_folder")
    /\ OpEnds(create_folder(fs, cwd, op[1].args[1], op[1].flag))

CallRenameFolder ==
    /\ OpCalled("rename_folder")
    /\ OpEnds(rename_folder(fs, cwd, op[1].args[1], op[1].args[2]))

CallMoveFile ==
    /\ OpCalled("move_file")
    /\ OpEnds(move_file(fs, cwd, op[1].args[1], op[1].args[2], op[1].flag))

OpNext ==
    \/ CallListFiles
    \/ CallGetFileName
    \/ CallGetFileSize
    \/ CallRenameFile
    \/ CallCreateFolder
    \/ CallRenameFolder
    \/ CallMoveFile

OpSpec == OpInit /\ [][OpNext]_vars

(***************************************************************************)
(* Properties.  The log and fsTrace only grow, so what holds of a line     *)
(* right after the loop has gone through it holds of it from then on: the  *)
(* properties below speak of the line the loop went through last.          *)
(***************************************************************************)

\* The line the loop went through last, its tokens, the log entries that
\* carry its number, and the filesystem before and after it.
Stepped == index >= 1
LastRaw == lines[index]
LastTok == Tokenized(LastRaw)
LastEntries == {i \in 1..Len(results) : results[i].line_number = index}
LastEntry == results[Len(results)]
FsBefore == fsTrace[index]
FsAfter == fsTrace[index + 1]

\* The words of the grammar.
SevenKeywords ==
    { <<"LIST_FILES">>, <<"GET_FILE_NAME">>, <<"GET_FILE_SIZE">>, <<"RENAME_FILE">>,
      <<"CREATE_FOLDER">>, <<"RENAME_FOLDER">>, <<"MOVE_FILE">> }

\* A physical line that is neither blank after trimming nor a comment: it
\* has a character that is not white space, and the first such character
\* is not "#".
Counted(l) ==
    /\ \E i \in 1..Len(l) : l[i] \notin StripChars
    /\ LET first == CHOOSE i \in 1..Len(l) :
                        l[i] \notin StripChars /\ \A j \in 1..(i - 1) : l[j] \in StripChars
       IN l[first] # HASH

\* The last line is a command line: it tokenizes, to at least one word.
LastIsCommand == Counted(LastRaw) /\ LastTok.ok /\ LastTok.tokens # << >>
LastKeyword == upper(LastTok.tokens[1])
LastArgs == Tail(LastTok.tokens)

\* The last line added exactly one entry to the log, a failure.
OneFailedEntry ==
    /\ Cardinality(LastEntries) = 1
    /\ LastEntry.line_number = index
    /\ ~LastEntry.success
    /\ LastEntry.result = None
    /\ LastEntry.error # None

\* The error kinds of the taxonomy, read off the exception an entry holds:
\* its class and, for the four kinds that share ValueError, its message.
KindOf(e) ==
    CASE e.cls = "ValueError"
            /\ e.msg \in {"No closing quotation", "No escaped character"} -> "ParseError"
      [] e.cls = "ValueError" /\ e.msg = "Unknown command: {command}" -> "UnknownCommand"
      [] e.cls = "ValueError"
            /\ e.msg \in {"{name} expects {expected} argument(s), got {len(args)}",
                          "MOVE_FILE expects 2 or 3 arguments"} -> "ArityError"
      [] e.cls = "ValueError" -> "InvalidArgument"
      [] e.cls = "FileNotFoundError" -> "NotFound"
      [] e.cls = "FileExistsError" -> "AlreadyExists"
      [] e.cls = "NotADirectoryError" -> "NotADirectory"
      [] e.cls = "IsADirectoryError" -> "IsADirectory"
      [] e.cls = "PermissionError" -> "PermissionDenied"
      [] OTHER -> "Other"

\* C1: the log of a finished run has one entry for each physical line that
\* is neither blank nor a comment, and none besides; also for lines that
\* tokenize to no word or to one empty word.
C1_LogLength ==
    pc = "done" =>
        Len(results) = Cardinality({k \in 1..Len(lines) : Counted(lines[k])})

\* A finished run over a line that tokenizes to one empty word, and over a
\* line that is skipped.
C1_Witness ==
    /\ pc = "done"
    /\ \E k \in 1..Len(lines) :
          Counted(lines[k]) /\ Tokenized(lines[k]).tokens = << << >> >>
    /\ \E k \in 1..Len(lines) : ~Counted(lines[k])
    /\ Len(results) >= 1

\* The loop has a branch for the line it is at: the line is skipped, or its
\* tokenizing fails, or it reaches the dispatch with some keyword, which is
\* then either unknown or the keyword of one handler.
CanStep ==
    \/ index = Len(lines)
    \/ /\ index < Len(lines)
       /\ LET raw_line == lines[index + 1]
              tokens == Tokenized(raw_line)
          IN \/ ~IsCandidate(raw_line)
             \/ ~tokens.ok
             \/ tokens.ok /\ tokens.tokens = << >>
             \/ /\ tokens.ok
                /\ tokens.tokens # << >>
                /\ \/ upper(tokens.tokens[1]) \notin CommandTable
                   \/ upper(tokens.tokens[1]) \in SevenKeywords

\* C2: a run never ends early because of a failure on a line: no exception
\* leaves the loop, whatever failed on the lines before; while the loop has
\* not returned it has a step to take; every step goes on to the next
\* physical line or returns; and the run returns only after the last
\* physical line, with the log it has built.
C2_RunsToTheEnd ==
    /\ [](pc # "raised")
    /\ [](pc = "loop" => CanStep)
    /\ [][\/ index' = index + 1 /\ pc' = "loop" /\ Len(results') >= Len(results)
          \/ index' = index /\ pc' = "done" /\ results' = results]_vars
    /\ [](pc = "done" => index = Len(lines) /\ Len(fsTrace) = Len(lines) + 1)

\* A finished run in which an earlier line failed and a later line still
\* got its entry.
C2_Witness ==
    /\ pc = "done"
    /\ index = Len(lines)
    /\ Len(results) >= 2
    /\ ~results[1].success
    /\ results[2].line_number > results[1].line_number

\* Line k of the script: whether it is a command line, its keyword, its
\* arguments, the log entries that carry its number, and the filesystem
\* before and after it.
IsCommandLine(k) ==
    Counted(lines[k]) /\ Tokenized(lines[k]).ok /\ Tokenized(lines[k]).tokens # << >>
KeywordOf(k) == upper(Tokenized(lines[k]).tokens[1])
ArgsOf(k) == Tail(Tokenized(lines[k]).tokens)
EntriesOf(k) == {i \in 1..Len(results) : results[i].line_number = k}
EntryOf(k) == results[CHOOSE i \in 1..Len(results) : results[i].line_number = k]

IsUnknownLine(k) == IsCommandLine(k) /\ KeywordOf(k) \notin SevenKeywords
IsMalformedLine(k) == Counted(lines[k]) /\ ~Tokenized(lines[k]).ok

\* C3: a line whose first token, uppercased, is none of the seven keywords
\* adds exactly one entry to the log, a failure of kind UnknownCommand that
\* names the uppercased token; only such lines get that kind; the
\* filesystem after the line is the filesystem before it; the run goes on,
\* and a following line that is neither blank nor a comment gets its own
\* entry.
C3_UnknownCommand ==
    /\ Stepped /\ IsUnknownLine(index) =>
          /\ OneFailedEntry
          /\ LastEntry.command = Some(LastKeyword)
          /\ KindOf(LastEntry.error[1]) = "UnknownCommand"
          /\ FsAfter = FsBefore
          /\ fs = FsAfter
          /\ pc = "loop" \/ (pc = "done" /\ index = Len(lines))
    /\ \A i \in 1..Len(results) :
          (results[i].error # None /\ KindOf(results[i].error[1]) = "UnknownCommand")
              => IsUnknownLine(results[i].line_number)
    /\ index >= 2 /\ IsUnknownLine(index - 1) /\ Counted(LastRaw) =>
          /\ Cardinality(LastEntries) = 1
          /\ Cardinality(EntriesOf(index - 1)) = 1
          /\ LastEntry.line_number = index
          /\ IsCommandLine(index) /\ LastKeyword \in SevenKeywords =>
                LET o == Handler(LastKeyword, FsBefore, << >>, LastArgs)
                IN LastEntry.success = ~Raised(o) /\ FsAfter = o.fs

\* An unknown command on line 1 and, after it, a command that succeeds and
\* changes the filesystem.
C3_Witness ==
    /\ pc = "done"
    /\ index = 2
    /\ IsUnknownLine(1)
    /\ Len(results) = 2
    /\ KindOf(results[1].error[1]) = "UnknownCommand"
    /\ results[2].success
    /\ fsTrace[3] # fsTrace[2]

\* The argument counts each keyword accepts.
AcceptedArity(keyword) ==
    CASE keyword \in { <<"LIST_FILES">>, <<"GET_FILE_NAME">>, <<"GET_FILE_SIZE">>,
                       <<"CREATE_FOLDER">> } -> {1}
      [] keyword \in { <<"RENAME_FILE">>, <<"RENAME_FOLDER">> } -> {2}
      [] keyword = <<"MOVE_FILE">> -> {2, 3}

HasArityMismatch(k) ==
    /\ IsCommandLine(k)
    /\ KeywordOf(k) \in SevenKeywords
    /\ Len(ArgsOf(k)) \notin AcceptedArity(KeywordOf(k))

\* C4: a line with one of the seven keywords and a number of arguments the
\* keyword does not accept adds exactly one entry to the log, a failure of
\* kind ArityError, and the filesystem after the line is the filesystem
\* before it; only such lines get that kind, so it tells them from unknown
\* commands and from invalid arguments.
C4_ArityError ==
    /\ Stepped /\ HasArityMismatch(index) =>
          /\ OneFailedEntry
          /\ LastEntry.command = Some(LastKeyword)
          /\ KindOf(LastEntry.error[1]) = "ArityError"
          /\ FsAfter = FsBefore
          /\ fs = FsAfter
    /\ \A i \in 1..Len(results) :
          (results[i].error # None /\ KindOf(results[i].error[1]) = "ArityError")
              => HasArityMismatch(results[i].line_number)

\* A finished run over a CREATE_FOLDER without arguments and then a
\* MOVE_FILE with one.
C4_Witness ==
    /\ pc = "done"
    /\ index = 2
    /\ HasArityMismatch(1) /\ KeywordOf(1) = <<"CREATE_FOLDER">> /\ ArgsOf(1) = << >>
    /\ HasArityMismatch(2) /\ KeywordOf(2) = <<"MOVE_FILE">> /\ Len(ArgsOf(2)) = 1
    /\ Len(results) = 2
    /\ KindOf(results[1].error[1]) = "ArityError"
    /\ KindOf(results[2].error[1]) = "ArityError"

\* C5: a line that is neither blank nor a comment and whose quoting is
\* malformed adds exactly one entry to the log, a failure of kind
\* ParseError without a command; the filesystem after the line is the
\* filesystem before it; no exception leaves the run at such a line; and
\* every later line that is neither blank nor a comment gets its entry.
C5_ParseError ==
    /\ Stepped /\ IsMalformedLine(index) =>
          /\ OneFailedEntry
          /\ LastEntry.command = None
          /\ LastEntry.line = LastRaw
          /\ KindOf(LastEntry.error[1]) = "ParseError"
          /\ FsAfter = FsBefore
          /\ fs = FsAfter
          /\ pc = "loop" \/ (pc = "done" /\ index = Len(lines))
    /\ ~(pc = "raised" /\ index < Len(lines) /\ IsMalformedLine(index + 1))
    /\ \A i \in 1..Len(results) :
          (results[i].error # None /\ KindOf(results[i].error[1]) = "ParseError")
              => IsMalformedLine(results[i].line_number)
    /\ \A j \in 1..index : \A k \in (j + 1)..index :
          IsMalformedLine(j) /\ Counted(lines[k]) =>
              /\ Cardinality(EntriesOf(k)) = 1
              /\ IsCommandLine(k) /\ KeywordOf(k) \in SevenKeywords =>
                    LET o == Handler(KeywordOf(k), fsTrace[k], << >>, ArgsOf(k))
                    IN EntryOf(k).success = ~Raised(o) /\ fsTrace[k + 1] = o.fs

\* A finished run over a line with an unterminated quote and, after it, a
\* command that succeeds and changes the filesystem.
C5_Witness ==
    /\ pc = "done"
    /\ index = 2
    /\ IsMalformedLine(1)
    /\ Tokenized(lines[1]).msg = "No closing quotation"
    /\ Len(results) = 2
    /\ results[1].command = None
    /\ results[2].success
    /\ fsTrace[3] # fsTrace[2]

\* C6: the log is in script order.  Its line numbers are strictly
\* increasing; the entries are exactly those of the lines gone through that
\* are neither blank nor comments, each under the 1-based physical position
\* of its line and with that line's text; and the entry of a command line
\* is the outcome of its handler on the filesystem all earlier lines left,
\* which the line turns into the filesystem the next line starts from.
C6_ScriptOrder ==
    /\ \A i \in 1..Len(results) : \A j \in (i + 1)..Len(results) :
          results[i].line_number < results[j].line_number
    /\ {results[i].line_number : i \in 1..Len(results)}
          = {k \in 1..index : Counted(lines[k])}
    /\ \A i \in 1..Len(results) : results[i].line = lines[results[i].line_number]
    /\ Len(fsTrace) = index + 1
    /\ pc # "raised" => fs = fsTrace[index + 1]
    /\ \A k \in 1..index :
          IF IsCommandLine(k) /\ KeywordOf(k) \in SevenKeywords
          THEN LET o == Handler(KeywordOf(k), fsTrace[k], << >>, ArgsOf(k))
               IN /\ EntryOf(k).success = ~Raised(o)
                  /\ EntryOf(k).result = o.value
                  /\ EntryOf(k).error = o.error
                  /\ fsTrace[k + 1] = o.fs
          ELSE fsTrace[k + 1] = fsTrace[k]

\* A finished run of two commands whose second meets what the first did:
\* on the filesystem the run started from it would have ended otherwise.
C6_Witness ==
    /\ pc = "done"
    /\ index = 2
    /\ Len(results) = 2
    /\ results[1].success
    /\ fsTrace[2] # fsTrace[1]
    /\ IsCommandLine(2) /\ KeywordOf(2) \in SevenKeywords
    /\ Raised(Handler(KeywordOf(2), fsTrace[1], << >>, ArgsOf(2))) # ~results[2].success

\* Line k is CREATE_FOLDER with one argument, and nothing stands in its
\* way on filesystem f: no location on the way to the folder, the folder's
\* own included, is a regular file.
IsCreateFolder(k) ==
    IsCommandLine(k) /\ KeywordOf(k) = <<"CREATE_FOLDER">> /\ Len(ArgsOf(k)) = 1
FolderLocation(k) == Locate(<< >>, Path(ArgsOf(k)[1]))
Unobstructed(f, q) == \A n \in 0..Len(q) : ~FsIsFile(f, SubSeq(q, 1, n))

\* C7: CREATE_FOLDER on a path that no regular file obstructs succeeds,
\* returns the path and leaves a directory there; run again on the same
\* path right after, it succeeds again, returns the same path, and leaves
\* the filesystem as the first run left it.  Also when the first run found
\* the folder there already, and whatever the second run is given to start
\* from by a first run that succeeded.
C7_CreateFolderIdempotent ==
    /\ Stepped /\ IsCreateFolder(index) /\ Unobstructed(FsBefore, FolderLocation(index)) =>
          /\ Cardinality(LastEntries) = 1
          /\ LastEntry.success
          /\ LastEntry.result = Some(PathValue(Path(LastArgs[1])))
          /\ FsIsDir(FsAfter, FolderLocation(index))
    /\ Stepped /\ IsCreateFolder(index) /\ LastEntry.success =>
          LET again == _cmd_create_folder(FsAfter, << >>, LastArgs)
          IN /\ ~Raised(again)
             /\ again.value = LastEntry.result
             /\ again.fs = FsAfter
    /\ index >= 2 /\ IsCreateFolder(index - 1) /\ IsCreateFolder(index)
          /\ FolderLocation(index - 1) = FolderLocation(index)
          /\ ArgsOf(index - 1) = ArgsOf(index)
          /\ EntryOf(index - 1).success =>
          /\ LastEntry.success
          /\ LastEntry.result = EntryOf(index - 1).result
          /\ FsAfter = FsBefore

\* A finished run of two CREATE_FOLDER lines on the same path, missing at
\* the start with its parent: the first creates both, the second finds
\* them.
C7_Witness ==
    /\ pc = "done"
    /\ index = 2
    /\ IsCreateFolder(1) /\ IsCreateFolder(2)
    /\ ArgsOf(1) = ArgsOf(2)
    /\ Len(FolderLocation(1)) = 2
    /\ ~FsExists(fsTrace[1], Front(FolderLocation(1)))
    /\ FsIsDir(fsTrace[2], FolderLocation(1))
    /\ results[1].success /\ results[2].success
    /\ results[1].result = results[2].result
    /\ fsTrace[3] = fsTrace[2]

\* A word that is a single name: not empty, without a separator.
IsName(w) == w # << >> /\ ~HasSeparator(w)

\* Filesystem g is f with the node at src taken to dst, which holds what
\* src held, and everything else as it was.
Carried(f, g, src, dst) ==
    /\ ~FsExists(g, src)
    /\ FsIsFile(g, dst)
    /\ g[dst] = f[src]
    /\ DOMAIN g = (DOMAIN f \ {src}) \cup {dst}
    /\ \A q \in DOMAIN f \ {src, dst} : g[q] = f[q]

\* The last line is RENAME_FILE a b where a is a regular file and b a name
\* that no entry of a's directory has.
RenameFileCase ==
    /\ IsCommandLine(index)
    /\ LastKeyword = <<"RENAME_FILE">>
    /\ Len(LastArgs) = 2
    /\ FsIsFile(FsBefore, Locate(<< >>, Path(LastArgs[1])))
    /\ IsName(LastArgs[2])
    /\ ~FsExists(FsBefore, Append(Front(Locate(<< >>, Path(LastArgs[1]))), LastArgs[2]))

\* C8: RENAME_FILE a b, where a is a regular file and no entry of a's
\* directory is named b, succeeds: afterward a is absent, b is in a's
\* directory with the bytes a had, nothing else has changed, and the
\* returned path is a's path with b for its last name.
C8_RenameFile ==
    Stepped /\ RenameFileCase =>
        LET a == Path(LastArgs[1])
            from == Locate(<< >>, a)
            to == Append(Front(from), LastArgs[2])
        IN /\ Cardinality(LastEntries) = 1
           /\ LastEntry.success
           /\ LastEntry.error = None
           /\ Carried(FsBefore, FsAfter, from, to)
           /\ LastEntry.result # None
           /\ LastEntry.result[1].type = "Path"
           /\ LastEntry.result[1].path = PathJoin(PathParent(a), LastArgs[2])
           /\ Locate(<< >>, LastEntry.result[1].path) = to

\* A finished run that renamed a file inside a directory other than the
\* working directory.
C8_Witness ==
    /\ pc = "done"
    /\ Stepped
    /\ RenameFileCase
    /\ Len(Locate(<< >>, Path(LastArgs[1]))) = 2
    /\ LastEntry.success
    /\ FsAfter # FsBefore

\* The last line is MOVE_FILE src dst without a third argument, and src is
\* a regular file.
MoveFileNoFlag ==
    /\ IsCommandLine(index)
    /\ LastKeyword = <<"MOVE_FILE">>
    /\ Len(LastArgs) = 2
    /\ FsIsFile(FsBefore, Locate(<< >>, Path(LastArgs[1])))

\* The locations of the source and of the destination as written, and the
\* location the source's name has inside the destination.
MoveFrom == Locate(<< >>, Path(LastArgs[1]))
MoveOnto == Locate(<< >>, Path(LastArgs[2]))
MoveInto == Append(MoveOnto, MoveFrom[Len(MoveFrom)])

\* C9: MOVE_FILE a dir, where a is a regular file and dir a directory
\* without an entry of a's name, succeeds: the result path is dir's path
\* with a's name after it, a is absent from where it was, dir holds under
\* a's name the bytes a had, and nothing else has changed.
C9_MoveIntoDirectory ==
    Stepped /\ MoveFileNoFlag /\ FsIsDir(FsBefore, MoveOnto)
            /\ ~FsExists(FsBefore, MoveInto) =>
        /\ Cardinality(LastEntries) = 1
        /\ LastEntry.success
        /\ LastEntry.error = None
        /\ LastEntry.result =
              Some(PathValue(PathJoin(Path(LastArgs[2]), PathName(Path(LastArgs[1])))))
        /\ Locate(<< >>, LastEntry.result[1].path) = MoveInto
        /\ Carried(FsBefore, FsAfter, MoveFrom, MoveInto)

\* A finished run that moved a regular file into a directory other than
\* the working directory.
C9_Witness ==
    /\ pc = "done"
    /\ Stepped
    /\ MoveFileNoFlag
    /\ FsIsDir(FsBefore, MoveOnto)
    /\ MoveOnto # << >>
    /\ ~FsExists(FsBefore, MoveInto)
    /\ LastEntry.success
    /\ FsIsFile(FsAfter, MoveInto)
    /\ ~FsExists(FsAfter, MoveFrom)

\* The effective destination of the last line, a MOVE_FILE: inside the
\* destination when that is a directory, else the destination itself.
MoveEffective == IF FsIsDir(FsBefore, MoveOnto) THEN MoveInto ELSE MoveOnto

\* C10: MOVE_FILE of a regular file without the OVERWRITE flag, when the
\* effective destination exists already, fails with AlreadyExists and
\* changes nothing: the source and the destination keep their content, as
\* does everything else.
C10_MoveNoOverwrite ==
    Stepped /\ MoveFileNoFlag /\ FsExists(FsBefore, MoveEffective) =>
        /\ OneFailedEntry
        /\ KindOf(LastEntry.error[1]) = "AlreadyExists"
        /\ FsAfter = FsBefore
        /\ fs = FsAfter
        /\ FsAfter[MoveFrom] = FsBefore[MoveFrom]
        /\ FsAfter[MoveEffective] = FsBefore[MoveEffective]

\* A finished run with a MOVE_FILE into a directory that has a file of the
\* source's name, with other bytes.
C10_Witness ==
    /\ pc = "done"
    /\ Stepped
    /\ MoveFileNoFlag
    /\ FsIsDir(FsBefore, MoveOnto)
    /\ FsIsFile(FsBefore, MoveInto)
    /\ MoveInto # MoveFrom
    /\ FsBefore[MoveInto] # FsBefore[MoveFrom]
    /\ ~LastEntry.success
    /\ LastEntry.error[1].cls = "FileExistsError"

\* The last line is MOVE_FILE src dst OVERWRITE, and src is a regular file.
MoveFileOverwrite ==
    /\ IsCommandLine(index)
    /\ LastKeyword = <<"MOVE_FILE">>
    /\ Len(LastArgs) = 3
    /\ LastArgs[3] = <<"OVERWRITE">>
    /\ FsIsFile(FsBefore, Locate(<< >>, Path(LastArgs[1])))

\* C11: MOVE_FILE of a regular file with OVERWRITE, when the effective
\* destination exists already, succeeds: afterward the effective
\* destination is a regular file with the bytes the source had, and the
\* source is absent from where it was.
C11_MoveOverwrite ==
    Stepped /\ MoveFileOverwrite /\ FsExists(FsBefore, MoveEffective) =>
        /\ Cardinality(LastEntries) = 1
        /\ LastEntry.success
        /\ FsIsFile(FsAfter, MoveEffective)
        /\ FsAfter[MoveEffective] = FsBefore[MoveFrom]
        /\ ~FsExists(FsAfter, MoveFrom)

\* The last line is RENAME_FILE with two arguments, the second of which
\* has a path separator in it.
RenameFileWithSeparator ==
    /\ IsCommandLine(index)
    /\ LastKeyword = <<"RENAME_FILE">>
    /\ Len(LastArgs) = 2
    /\ \E i \in 1..Len(LastArgs[2]) : LastArgs[2][i] = SEP

\* C12: RENAME_FILE with a new name that has a path separator in it fails
\* with InvalidArgument, whether the source is a regular file, a directory
\* or missing, and the filesystem after the line is the filesystem before
\* it.
C12_RenameFileSeparator ==
    Stepped /\ RenameFileWithSeparator =>
        /\ OneFailedEntry
        /\ LastEntry.command = Some(<<"RENAME_FILE">>)
        /\ KindOf(LastEntry.error[1]) = "InvalidArgument"
        /\ FsAfter = FsBefore
        /\ fs = FsAfter

\* A finished run with a RENAME_FILE of a missing source to a name with a
\* separator.
C12_Witness ==
    /\ pc = "done"
    /\ Stepped
    /\ RenameFileWithSeparator
    /\ ~FsExists(FsBefore, Locate(<< >>, Path(LastArgs[1])))
    /\ KindOf(LastEntry.error[1]) = "InvalidArgument"

\* The symbols that are the same letters up to case, and the words that
\* differ from a word in letter case only.
CaseFold(c) ==
    IF \E u \in UpperForms : u[1] = c THEN (CHOOSE u \in UpperForms : u[1] = c)[2] ELSE c
SameLetters(c) ==
    {c} \cup {x \in {u[1] : u \in UpperForms} \cup {u[2] : u \in UpperForms} :
                CaseFold(x) = CaseFold(c)}
CaseVariants(w) ==
    {v \in [1..Len(w) -> UNION {SameLetters(w[i]) : i \in 1..Len(w)}] :
        \A i \in 1..Len(w) : v[i] \in SameLetters(w[i])}

\* C13: keywords are case-insensitive.  Whatever the letter case of the
\* keyword of a line, the line gets the entry and leaves the filesystem
\* that any other spelling of the keyword gets and leaves on the same
\* filesystem: the same success flag, payload and error, the command
\* recorded in upper case, the same filesystem after the line.
C13_KeywordCase ==
    Stepped /\ IsCommandLine(index) =>
        \A keyword \in CaseVariants(LastTok.tokens[1]) :
            LET e == Execute(FsBefore, << >>, << keyword >> \o LastArgs)
            IN /\ Cardinality(LastEntries) = 1
               /\ LastEntry.command = Some(e.command)
               /\ e.command = [i \in 1..Len(keyword) |-> CaseFold(keyword[i])]
               /\ LastEntry.success = ~Raised(e.outcome)
               /\ LastEntry.result = e.outcome.value
               /\ LastEntry.error = e.outcome.error
               /\ FsAfter = e.outcome.fs

\* A finished run whose last line spells MOVE_FILE in mixed case, and
\* moved a file.
C13_Witness ==
    /\ pc = "done"
    /\ Stepped
    /\ IsCommandLine(index)
    /\ LastTok.tokens[1] = << "Move_File" >>
    /\ Cardinality(CaseVariants(LastTok.tokens[1])) = 3
    /\ LastEntry.command = Some(<<"MOVE_FILE">>)
    /\ LastEntry.success
    /\ FsAfter # FsBefore

\* C16.  When the script file cannot be read, run_script_file fails before
\* any line is executed: the step that fails to read the script ends the
\* call with no entry in the log, the filesystem as it was and the process
\* working directory as it was, and nothing happens after it.
ReadFails == pc = "read" /\ file'[1].path = None

C16_UnreadableScript ==
    /\ [][ReadFails => /\ pc' = "failed"
                       /\ file'[1].error # None
                       /\ results' = << >>
                       /\ index' = 0
                       /\ fs' = fs
                       /\ cwd' = cwd]_vars
    /\ [][pc # "failed"]_vars
    /\ [](pc = "read" /\ read_text_error(fs, Resolve(cwd, file[1].script_path)) # None
            => file[1].path = None)

\* The call from the directory w with the path /s/n, which names nothing,
\* has failed with FileNotFoundError and the working directory is w.
C16_Witness ==
    /\ pc = "failed"
    /\ file[1].script_path = << SEP, "s", SEP, "n" >>
    /\ file[1].path = None
    /\ file[1].error = Some(Exc("FileNotFoundError", "ENOENT"))
    /\ results = << >>
    /\ cwd = Path1("w")

\* C15.  During run_script_file every relative path argument of every
\* command line resolves against the directory that contains the script
\* file, not against the working directory the process had at the call: the
\* entry of each line that names one of the seven keywords, and the
\* filesystem the line leaves, are the outcome of the handler run with the
\* script's directory as the base of relative paths.
ScriptDirectory == Front(file[1].path[1])

C15_ScriptDirectoryBase ==
    (file # None /\ file[1].path # None) =>
        \A k \in 1..index :
            (IsCommandLine(k) /\ KeywordOf(k) \in SevenKeywords) =>
                LET o == Handler(KeywordOf(k), fsTrace[k], ScriptDirectory, ArgsOf(k))
                IN /\ EntryOf(k).success = ~Raised(o)
                   /\ EntryOf(k).result = o.value
                   /\ EntryOf(k).error = o.error
                   /\ fsTrace[k + 1] = o.fs

\* Called from the directory w, which has a file a of its own, the script
\* /s/x with the one line RENAME_FILE a n has returned: s/a is now s/n, w/a
\* is where it was, and the handler run from w would have left another
\* filesystem.
C15_Witness ==
    /\ file # None
    /\ pc = "returned"
    /\ file[1].original_cwd = Some(Path1("w"))
    /\ Len(lines) = 1
    /\ IsCommandLine(1)
    /\ KeywordOf(1) = <<"RENAME_FILE">>
    /\ ArgsOf(1) = << Wa, Wn >>
    /\ results[1].success
    /\ FsExists(fs, Path2("s", "n"))
    /\ ~FsExists(fs, Path2("s", "a"))
    /\ FsExists(fs, Path2("w", "a"))
    /\ Handler(KeywordOf(1), fsTrace[1], Path1("w"), ArgsOf(1)).fs # fs

\* C14.  The base directory of relative paths is a value of the run, not
\* state of the process: with two runs of run_script_file on scripts in
\* different directories, interleaved in any order, every step of a run
\* that executes a command line gives the outcome of the handler run with
\* the directory of that run's own script as the base of relative paths,
\* and no step of a run changes the process working directory while the
\* other run is still going.
RunStep == file' = file /\ other' = other

OwnBaseDirectory ==
    (/\ RunStep
     /\ pc = "loop"
     /\ index' = index + 1
     /\ IsCommandLine(index + 1)
     /\ KeywordOf(index + 1) \in SevenKeywords)
        => LET o == Handler(KeywordOf(index + 1), fs, ScriptDirectory, ArgsOf(index + 1))
           IN /\ fs' = o.fs
              /\ results'[Len(results')].success = ~Raised(o)
              /\ results'[Len(results')].result = o.value
              /\ results'[Len(results')].error = o.error

WorkingDirectoryUntouched ==
    (/\ other # None
     /\ other[1].pc \notin {"returned", "failed"}
     /\ other' = other)
        => cwd' = cwd

C14_ExplicitBaseDirectory ==
    /\ [][OwnBaseDirectory]_vars
    /\ [][WorkingDirectoryUntouched]_vars

\* The last line is MOVE_FILE with three arguments.
MoveFileThreeArguments ==
    /\ IsCommandLine(index)
    /\ LastKeyword = <<"MOVE_FILE">>
    /\ Len(LastArgs) = 3

\* C17.  MOVE_FILE with three arguments enables overwrite only when the
\* third token is literally OVERWRITE: with any other third token, a
\* spelling in another case such as overwrite included, the line gives one
\* failed entry and leaves the filesystem as it was.
C17_LiteralOverwrite ==
    Stepped /\ MoveFileThreeArguments /\ LastArgs[3] # <<"OVERWRITE">> =>
        /\ OneFailedEntry
        /\ FsAfter = FsBefore

\* C18.  Every ExecutionResult of every log is well-formed: success is
\* true exactly when a payload is present and the error is absent, and
\* false exactly when an error is present and the payload is absent; the
\* parsed command is absent exactly when the tokenization of the entry's
\* line failed; and the line text recorded is the raw physical line of the
\* script at the entry's line number.
WellFormed(r) ==
    /\ r.success <=> (r.result # None /\ r.error = None)
    /\ ~r.success <=> (r.error # None /\ r.result = None)
    /\ (r.command = None) <=> ~shlex_split(strip(r.line)).ok
    /\ r.line_number \in 1..Len(lines)
    /\ r.line = lines[r.line_number]

C18_WellFormedResults == \A i \in 1..Len(results) : WellFormed(results[i])

\* A finished run of two lines whose log has a success with its payload
\* and, after it, a parse error without a command.
C18_Witness ==
    /\ pc = "done"
    /\ Len(results) = 2
    /\ results[1].success
    /\ results[1].result # None
    /\ results[1].command # None
    /\ results[2].command = None
    /\ results[2].error # None
    /\ ~results[2].success

\* C19.  With observation enabled (echo), one notification is printed for
\* each entry appended, after the append and before the next line is taken
\* up: between lines, and at the end, the notifications are as many as the
\* entries, in the same order, each about its entry (its line number, and
\* its payload or its error); a skipped line prints nothing.  With
\* observation disabled nothing is printed.  The log does not depend on the
\* setting: the entry of a command line is the outcome of executing its
\* tokens on the filesystem the earlier lines left, and that of a line
\* that does not tokenize holds the tokenizer's error.
IsAbout(text, r) ==
    /\ text.line_number = r.line_number
    /\ text.command = r.command
    /\ text.payload = IF r.success THEN r.result ELSE r.error

C19_Notifications ==
    /\ echo => /\ Len(stdout) = Len(results)
               /\ \A i \in 1..Len(results) : IsAbout(stdout[i], results[i])
    /\ ~echo => stdout = << >>
    /\ (pc # "raised" /\ Stepped /\ ~Counted(LastRaw)) => LastEntries = {}
    /\ (pc # "raised" /\ Stepped /\ LastIsCommand) =>
          LET e == Execute(FsBefore, << >>, LastTok.tokens)
          IN LastEntry = [line_number |-> index, line |-> LastRaw,
                          command |-> Some(e.command), success |-> ~Raised(e.outcome),
                          result |-> e.outcome.value, error |-> e.outcome.error]
    /\ (pc # "raised" /\ Stepped /\ Counted(LastRaw) /\ ~LastTok.ok) =>
          LastEntry = [line_number |-> index, line |-> LastRaw, command |-> None,
                       success |-> FALSE, result |-> None,
                       error |-> Some(Exc("ValueError", LastTok.msg))]

\* With echo on, a run of a comment line and a command line has ended:
\* one entry, for line 2, and one line printed, about it.
C19_Witness ==
    /\ echo
    /\ pc = "done"
    /\ Len(lines) = 2
    /\ ~Counted(lines[1])
    /\ IsCommandLine(2)
    /\ Len(results) = 1
    /\ Len(stdout) = 1
    /\ stdout[1].line_number = 2

\* A line of quote characters only, white space around them aside.
QuotesOnly(l) ==
    /\ strip(l) # << >>
    /\ \A i \in 1..Len(strip(l)) : strip(l)[i] \in {DQ, SQ}

\* Nothing printed is about the last line.
LastUnnoticed == \A i \in 1..Len(stdout) : stdout[i].line_number # index

\* C20.  A line that tokenizes to zero words, such as a line of quote
\* characters only, is treated as a blank line is: it adds no entry to the
\* log, nothing is printed for it, and the filesystem after it is the
\* filesystem before it.
C20_ZeroWordLine ==
    (/\ Stepped
     /\ pc # "raised"
     /\ LastTok.ok
     /\ (LastTok.tokens = << >> \/ QuotesOnly(LastRaw)))
        => /\ LastEntries = {}
           /\ LastUnnoticed
           /\ FsAfter = FsBefore

\* C20, amended.  Only a line that is blank after trimming tokenizes to no
\* token at all, and it adds no entry, prints nothing and leaves the
\* filesystem as it was.  A line of quote characters only that tokenizes
\* has at least one token (the empty word for a pair of quotes); it is a
\* command line like any other: one failed entry of kind UnknownCommand
\* under the token as command name, one printed line when echo is on, and
\* the filesystem as it was.
C20_QuotesOnlyLine ==
    (Stepped /\ pc # "raised" /\ LastTok.ok) =>
        /\ LastTok.tokens = << >> =>
              /\ strip(LastRaw) = << >>
              /\ LastEntries = {}
              /\ LastUnnoticed
              /\ FsAfter = FsBefore
        /\ QuotesOnly(LastRaw) =>
              /\ LastTok.tokens # << >>
              /\ OneFailedEntry
              /\ KindOf(LastEntry.error[1]) = "UnknownCommand"
              /\ LastEntry.command = Some(upper(LastTok.tokens[1]))
              /\ echo => (~LastUnnoticed /\ IsAbout(stdout[Len(stdout)], LastEntry))
              /\ ~echo => stdout = << >>
              /\ FsAfter = FsBefore

\* The line of one pair of double quotes has been executed with echo on:
\* its one token is the empty word, and the log has a failed entry for it
\* under the empty command name.
C20_Witness ==
    /\ Stepped
    /\ echo
    /\ LastRaw = << DQ, DQ >>
    /\ LastTok.ok
    /\ LastTok.tokens = << << >> >>
    /\ Cardinality(LastEntries) = 1
    /\ LastEntry.command = Some(<< >>)
    /\ ~LastEntry.success
    /\ Len(stdout) = Len(results)

\* The call of move_file under way has overwrite set and got past the
\* checks with an effective destination that was a regular file.
MoveAt == Locate(cwd, MoveDest)
MoveSrcAt == Locate(cwd, MoveSrc)
OverwritingMove ==
    /\ move # None
    /\ move[1].dest # None
    /\ move[1].overwrite
    /\ FsIsFile(move[1].before, MoveAt)

\* The steps come in the order removal, parents, move: when the parents
\* are about to be created the destination file is gone already, and when
\* the source is about to be moved the destination is gone and its parent
\* is a directory.
MoveStepsInOrder ==
    OverwritingMove =>
        /\ pc = "mv_unlink" => (fs = move[1].before /\ ~move[1].removed)
        /\ pc = "mv_mkdir" => (move[1].removed /\ fs = unlink(move[1].before, MoveAt))
        /\ pc = "mv_move" => (/\ move[1].removed
                              /\ ~FsExists(fs, MoveAt) \/ MoveAt = MoveSrcAt
                              /\ FsIsDir(fs, Front(MoveAt)))
        /\ pc = "mv_returned" => move[1].removed

\* A failure after the removal and before the move leaves the destination
\* absent and the source where it was, with its content.
MoveFailsBetween ==
    (OverwritingMove /\ pc = "mv_raised" /\ move[1].removed) =>
        /\ ~FsExists(fs, MoveAt)
        /\ FsIsFile(fs, MoveSrcAt)
        /\ fs[MoveSrcAt] = move[1].before[MoveSrcAt]

\* C21.  move_file with overwrite set and an existing effective
\* destination removes the destination file, then creates the missing
\* parents of the destination, then moves the source; the steps are not
\* one atomic step, and a failure after the removal and before the move
\* leaves the destination absent while the source is still present.
C21_DeleteThenMove == MoveStepsInOrder /\ MoveFailsBetween

\* A call of a function of file_manager has ended.
OpDone(function) == op # None /\ pc = "op_done" /\ op[1].function = function
OpOutcome == op[1].outcome[1]
OpBefore == fsTrace[1]
\* The location the i-th argument names.
OpAt(i) == Locate(<< >>, Path(op[1].args[i]))
OpFails(kind) == Raised(OpOutcome) /\ KindOf(OpOutcome.error[1]) = kind

\* C22.  list_files on an existing directory returns exactly the names of
\* the regular files that are direct entries of it, no name of a
\* subdirectory and nothing from inside one; it fails with NotFound when
\* nothing is at the path and with NotADirectory when something that is
\* not a directory is; and the filesystem is as it was in every case.
C22_ListFiles ==
    OpDone("list_files_in_folder") =>
        /\ fs = OpBefore
        /\ IF ~FsExists(OpBefore, OpAt(1)) THEN OpFails("NotFound")
           ELSE IF OpBefore[OpAt(1)].kind # "dir" THEN OpFails("NotADirectory")
           ELSE /\ ~Raised(OpOutcome)
                /\ \A e \in DOMAIN OpBefore :
                      (e # << >> /\ e[Len(e)] \in OpOutcome.value[1] /\ Len(e) = Len(OpAt(1)) + 1
                         /\ IsPrefix(OpAt(1), e))
                      => OpBefore[e].kind = "file"
                /\ \A e \in DOMAIN OpBefore :
                      (Len(e) = Len(OpAt(1)) + 1 /\ IsPrefix(OpAt(1), e)
                         /\ OpBefore[e].kind = "file")
                      => e[Len(e)] \in OpOutcome.value[1]
                /\ \A nm \in OpOutcome.value[1] : Append(OpAt(1), nm) \in DOMAIN OpBefore

\* The directory d, whose one entry is a directory that holds a file, has
\* been listed: the list is empty.
C22_Witness ==
    /\ OpDone("list_files_in_folder")
    /\ OpBefore = Tree3
    /\ op[1].args = << Wd >>
    /\ OpOutcome.value = Some({})

\* Filesystem g is f with the directory at src, and everything in it, taken
\* to dst: each entry under src is under dst as it was, nothing is under
\* src, and everything else is as it was.
CarriedTree(f, g, src, dst) ==
    /\ FsIsDir(g, dst)
    /\ \A q \in DOMAIN f :
          IF IsPrefix(src, q)
          THEN /\ q \notin DOMAIN g
               /\ dst \o SubSeq(q, Len(src) + 1, Len(q)) \in DOMAIN g
               /\ g[dst \o SubSeq(q, Len(src) + 1, Len(q))] = f[q]
          ELSE q \in DOMAIN g /\ g[q] = f[q]
    /\ Cardinality(DOMAIN g) = Cardinality(DOMAIN f)

\* The outcome of rename_folder(path, newName) that the given order of
\* checks asks for; named is whether newName and the path are taken to be
\* names at all.
RenameFolderAsStated(named) ==
    LET newName == op[1].args[2]
        at == OpAt(1)
        to == Append(Front(at), newName)
    IN IF HasSeparator(newName)
       THEN OpFails("InvalidArgument") /\ fs = OpBefore
       ELSE IF ~FsExists(OpBefore, at)
       THEN OpFails("NotFound") /\ fs = OpBefore
       ELSE IF ~FsIsDir(OpBefore, at)
       THEN OpFails("NotADirectory") /\ fs = OpBefore
       ELSE IF ~named
       THEN OpFails("InvalidArgument") /\ fs = OpBefore
       ELSE IF FsExists(OpBefore, to)
       THEN OpFails("AlreadyExists") /\ fs = OpBefore
       ELSE /\ ~Raised(OpOutcome)
            /\ OpOutcome.value[1].type = "Path"
            /\ Locate(<< >>, OpOutcome.value[1].path) = to
            /\ CarriedTree(OpBefore, fs, at, to)

\* C23.  rename_folder succeeds exactly when newName has no path
\* separator, the path exists and is a directory, and no entry of the same
\* parent is named newName; then the directory and all its content are
\* under the new path and nothing is under the old one.  Otherwise it
\* fails, with InvalidArgument, NotFound, NotADirectory or AlreadyExists,
\* checked in that order, and the filesystem is as it was.
C23_RenameFolder == OpDone("rename_folder") => RenameFolderAsStated(TRUE)

\* C23, amended.  As C23, for a newName that is not empty and a path that
\* has a last name: with an empty newName, or a path without a name (the
\* empty path, the root), a call that gets past the NotFound and the
\* NotADirectory checks fails with InvalidArgument and the filesystem is
\* as it was.
C23_RenameFolderNamed ==
    OpDone("rename_folder") =>
        RenameFolderAsStated(op[1].args[2] # << >> /\ Path(op[1].args[1]).parts # << >>)

\* The directory d, which holds a directory b with a file b in it, has
\* been renamed to n: the file is at n/b/b and nothing is under d.
C23_Witness ==
    /\ OpDone("rename_folder")
    /\ OpBefore = Tree3
    /\ op[1].args = << Wd, Wn >>
    /\ ~Raised(OpOutcome)
    /\ FsIsFile(fs, Path3("n", "b", "b"))
    /\ ~FsExists(fs, Path1("d"))

\* The locations from the root down to q, q included.
Ancestry(q) == {SubSeq(q, 1, n) : n \in 0..Len(q)}

\* Filesystem g is f with an empty directory at q and at every location
\* above q that f does not have, and nothing else new or different.
MadeDirs(f, g, q) ==
    /\ DOMAIN g = DOMAIN f \cup Ancestry(q)
    /\ \A r \in DOMAIN f : g[r] = f[r]
    /\ \A r \in Ancestry(q) \ DOMAIN f : g[r] = DirNode

\* A regular file is on the way to q.
Obstructed(f, q) == \E r \in Ancestry(q) \ {q} : FsIsFile(f, r)

\* The outcome of create_folder on a path that is not there: reach is
\* whether the directory can be made at all.
CreateFolderOnMissing(reach) ==
    IF reach
    THEN /\ ~Raised(OpOutcome)
         /\ OpOutcome.value[1] = PathValue(Path(op[1].args[1]))
         /\ MadeDirs(OpBefore, fs, OpAt(1))
         /\ FsIsDir(fs, OpAt(1))
    ELSE OpFails("NotADirectory") /\ fs = OpBefore

\* create_folder on a path where an entry that is not a directory is.
CreateFolderOnFile ==
    OpDone("create_folder") /\ FsExists(OpBefore, OpAt(1)) /\ ~FsIsDir(OpBefore, OpAt(1))
        => OpFails("AlreadyExists") /\ fs = OpBefore

\* C24.  create_folder on a path where an entry that is not a directory
\* is fails with AlreadyExists, whatever existOk is, and the filesystem is
\* as it was; on a path where nothing is it makes the directory and every
\* missing directory above it, and returns the path.
C24_CreateFolder ==
    /\ CreateFolderOnFile
    /\ OpDone("create_folder") /\ ~FsExists(OpBefore, OpAt(1))
           => CreateFolderOnMissing(TRUE)

\* C24, amended.  As C24 when no regular file is on the way to the path;
\* when one is, the call fails with NotADirectory and the filesystem is as
\* it was.
C24_CreateFolderReachable ==
    /\ CreateFolderOnFile
    /\ OpDone("create_folder") /\ ~FsExists(OpBefore, OpAt(1))
           => CreateFolderOnMissing(~Obstructed(OpBefore, OpAt(1)))

\* create_folder of n/b, with exist_ok false, where no n is: n and n/b
\* have been made.
C24_Witness ==
    /\ OpDone("create_folder")
    /\ ~op[1].flag
    /\ op[1].args[1] = Wnb
    /\ ~FsExists(OpBefore, Path1("n"))
    /\ ~Raised(OpOutcome)
    /\ FsIsDir(fs, Path2("n", "b"))

\* The working directory of the process when run_script_file was called.
CalledFrom == (CHOOSE call \in FileCalls : call.script_path = file[1].script_path).cwd

\* C25.  When run_script_file has finished, with the log or with an
\* exception, the working directory of the process is the one it was
\* called from.
C25_WorkingDirectoryRestored ==
    (file # None /\ pc \in {"returned", "failed"}) => cwd = CalledFrom

\* The last line is a MOVE_FILE whose first argument names a regular file.
MoveFileOfFile ==
    /\ IsCommandLine(index)
    /\ LastKeyword = <<"MOVE_FILE">>
    /\ Len(LastArgs) >= 1
    /\ FsIsFile(FsBefore, MoveFrom)

\* C26.  A MOVE_FILE that fails does not destroy its source, whatever the
\* filesystem and the arguments are, OVERWRITE with a destination that is
\* the source itself or the directory that holds it included: after a
\* failed MOVE_FILE the source is a regular file with the bytes it had.
C26_FailedMoveKeepsSource ==
    Stepped /\ MoveFileOfFile /\ ~LastEntry.success =>
        /\ FsIsFile(FsAfter, MoveFrom)
        /\ FsAfter[MoveFrom] = FsBefore[MoveFrom]

\* The location of the path the last line returned.
MoveReturned == Locate(<< >>, LastEntry.result[1].path)

\* C27.  When MOVE_FILE succeeds, the path it returns is the path of a
\* regular file with the bytes the source had, also when OVERWRITE is given
\* and the effective destination is a directory.
C27_ReturnedPathHoldsSource ==
    Stepped /\ MoveFileOfFile /\ LastEntry.success =>
        /\ FsIsFile(FsAfter, MoveReturned)
        /\ FsAfter[MoveReturned] = FsBefore[MoveFrom]

\* The contents of the regular files of a filesystem, each as many times
\* as files have it.
FileContents(f) ==
    LET files == {q \in DOMAIN f : f[q].kind = "file"}
    IN [d \in {f[q].data : q \in files} |-> Cardinality({q \in files : f[q].data = d})]

\* Line k is a MOVE_FILE with the OVERWRITE flag.
CarriesOverwrite(k) ==
    /\ IsCommandLine(k)
    /\ KeywordOf(k) = <<"MOVE_FILE">>
    /\ Len(ArgsOf(k)) = 3
    /\ ArgsOf(k)[3] = <<"OVERWRITE">>

\* C28.  A script none of whose MOVE_FILE lines has the OVERWRITE flag
\* destroys no file content: after every line the contents of the regular
\* files, counted with repetition, are those before the run.
C28_ContentsPreserved ==
    (\A k \in 1..Len(lines) : ~CarriesOverwrite(k)) =>
        \A k \in 1..index : FileContents(fsTrace[k + 1]) = FileContents(fsTrace[1])

\* The last line is one of the three commands that only read, with the
\* given keyword and one argument.
ReadsWith(keyword) ==
    /\ IsCommandLine(index)
    /\ LastKeyword = keyword
    /\ Len(LastArgs) = 1

\* The last line failed, with an error of the given kind.
LastFailsWith(kind) == OneFailedEntry /\ KindOf(LastEntry.error[1]) = kind

\* The location the argument of the last line names.
ReadAt == Locate(<< >>, Path(LastArgs[1]))

\* C29.  LIST_FILES, GET_FILE_NAME and GET_FILE_SIZE leave the filesystem
\* as it was on every input, whether they succeed or fail; GET_FILE_SIZE
\* fails with NotFound on a path where nothing is and with IsADirectory on
\* a directory, GET_FILE_NAME fails with NotFound on a path where nothing
\* is.
C29_ReadOnlyCommands ==
    Stepped /\ IsCommandLine(index) =>
        /\ LastKeyword \in {<<"LIST_FILES">>, <<"GET_FILE_NAME">>, <<"GET_FILE_SIZE">>}
              => FsAfter = FsBefore /\ fs = FsAfter
        /\ ReadsWith(<<"GET_FILE_SIZE">>) /\ ~FsExists(FsBefore, ReadAt)
              => LastFailsWith("NotFound")
        /\ ReadsWith(<<"GET_FILE_SIZE">>) /\ FsIsDir(FsBefore, ReadAt)
              => LastFailsWith("IsADirectory")
        /\ ReadsWith(<<"GET_FILE_NAME">>) /\ ~FsExists(FsBefore, ReadAt)
              => LastFailsWith("NotFound")

\* A finished run whose last line is GET_FILE_SIZE d, with d a directory
\* that holds a file: the line has failed with IsADirectoryError and the
\* directory and the file are as they were.
C29_Witness ==
    /\ pc = "done"
    /\ Stepped
    /\ ReadsWith(<<"GET_FILE_SIZE">>)
    /\ LastArgs[1] = Wd
    /\ FsIsDir(FsBefore, Path1("d"))
    /\ FsIsFile(FsBefore, Path2("d", "a"))
    /\ ~LastEntry.success
    /\ LastEntry.error[1].cls = "IsADirectoryError"
    /\ fs = FsBefore

\* C30.  A line whose result is a failure and that has no OVERWRITE flag
\* leaves the filesystem exactly as it was before the line: rename_file,
\* rename_folder, create_folder and move_file make all their checks before
\* they write.
C30_FailedLineChangesNothing ==
    Stepped /\ LastEntries # {} /\ ~LastEntry.success /\ ~CarriesOverwrite(index) =>
        FsAfter = FsBefore /\ fs = FsBefore

====
